---- MODULE Spec2Model ----
(***************************************************************************)
(* PISA watchtower core: the Watcher component (per-appointment reducer    *)
(* and its respond / evict edge actions) and the MultiResponder with its   *)
(* gas queue and TransactionTracker.                                       *)
(*                                                                         *)
(* Two specifications share the module:                                    *)
(*   Spec           the Watcher driven by NEW_HEAD events                  *)
(*   SpecResponder  the MultiResponder, GasQueue and TransactionTracker    *)
(* Each leaves the other subsystem's variables untouched.                  *)
(***************************************************************************)
EXTENDS Integers, Sequences, FiniteSets, TLC

(***************************************************************************)
(* Bounds of the exploration.                                              *)
(***************************************************************************)
MaxHeight == 4          \* highest block number explored by the Watcher
MaxNewBlocks == 2       \* blocks one NEW_HEAD event may bring
MaxConfirmations == 3   \* largest confirmationsBeforeRemoval tried

MaxRequests == 3        \* startResponse calls explored
MaxQueueDepth == 3      \* largest maxConcurrentResponses tried
MaxBlockNumber == 2     \* highest head number the TransactionTracker sees
MaxTopics == 2          \* topics of an event filter or of a log
MaxStateNonce == 2      \* highest stateNonce of an appointment
MaxCacheDepth == 2      \* largest maxDepth a BlockCache is constructed with
MaxCacheHeight == 3     \* highest block number handed to a BlockCache
MaxHeads == 3           \* head hashes delivered to a BlockProcessor
MaxConstructorArg == 10 \* largest confirmation count passed to new Watcher
MaxAttempts == 3        \* largest maxAttempts of an EthereumDedicatedResponder
MaxConfirmationsRequired == 4   \* largest confirmationsRequired of a miner
MaxBlocksThreshold == 3         \* largest blocksThresholdForStuckTransaction
MaxMinerBlocks == 5             \* new blocks a miner sees after sending
MaxAncestry == 2                \* most blocks of the ancestry a head handler walks
MaxTicks == 3                   \* head events handled after a broadcast
MaxReduceHeads == 2             \* heads the responder's anchor state is reduced over
MaxBlockTxs == 2                \* transactions of a block given to reduce
MaxTxNonce == 1                 \* highest nonce of a transaction given to reduce
MaxTrackedHeight == 3           \* highest head number a TransactionTracker alone sees
TrackerCacheDepth == 1          \* blocks below the head its block cache keeps

Appointments == {"a1"}

\* MultiResponder constructor default: replacementRate
replacementRate == 13

\* Distinct response transactions (chainId, data, to, value, gasLimit), in
\* the order in which requests first use them
TxIdOrder == <<"A", "B", "C">>
TxIds == {TxIdOrder[i] : i \in 1..Len(TxIdOrder)}
\* Prices the gas estimator returns
GasValues == {5, 8}

VARIABLES
    chain,      \* ancestry of the current head above the genesis block 0:
                \* chain[n] = appointments whose event filter matches a log
                \* of block n (the block cache covers the whole ancestry)
    store,      \* AppointmentStore: ids of the appointments it holds
    anchor,     \* Watcher anchor state at the current head, per appointment
    confirmationsBeforeResponse,
    confirmationsBeforeRemoval,
    calls,      \* per appointment, the respond / removeById calls made, in order
    lastEvent,  \* the last NEW_HEAD(prevHead, head): prevHead's number and the
                \* number of the common ancestor of prevHead and head
    reorgAt,    \* common ancestor of the one reorg explored (-1: none so far)
    rewound,    \* per appointment: that reorg went below its blockObserved
    addedAt     \* per appointment, the head number when it entered the store
                \* (-1: never)

VARIABLES
    queue,          \* MultiResponder.queue: the GasQueue (isSet FALSE before setup)
    maxConcurrentResponses,
    responses,      \* per startResponse call: where it stands, its TxId
    txCallbacks,    \* TransactionTracker.txCallbacks: the identifier objects
                    \* (one per startResponse call) that have a callback
    lastBlockNumber,\* TransactionTracker.lastBlockNumber
    minedCalls,     \* txMined calls made by checkTxs, not yet past their await
    sent,           \* the transactions handed to the signer, in order
    lastMined,      \* the last txMined call: arguments and how it ended
    removedCount    \* per TxId: txMined calls that dequeued or consumed

responderVars == <<queue, maxConcurrentResponses, responses, txCallbacks,
                   lastBlockNumber, minedCalls, sent, lastMined, removedCount>>

watcherVars == <<chain, store, anchor, confirmationsBeforeResponse,
                 confirmationsBeforeRemoval, calls, lastEvent, reorgAt,
                 rewound, addedAt>>

VARIABLES
    eventFilter,    \* an appointment's EventFilter: address and topics
    eventLog,       \* a log of a block: address and topics
    matchResult     \* what the filter comparison returned for them

logVars == <<eventFilter, eventLog, matchResult>>

VARIABLES
    appointmentsByStateLocator, \* AppointmentStore: its entry for each state locator
    addResult,      \* the last addAppointment call: its appointment and outcome
    storeOp         \* the last operation made on the AppointmentStore

storeVars == <<appointmentsByStateLocator, addResult, storeOp>>

VARIABLES
    maxDepth,       \* BlockCache: the depth it was constructed with
    blocks,         \* BlockCache: the blocks it contains
    initialHeight,  \* BlockCache: number of the first block added (-1: none)
    addedBlocks,    \* every block addBlock has accepted so far
    lastCall        \* the last BlockCache call: arguments and what it returned

cacheVars == <<maxDepth, blocks, initialHeight, addedBlocks, lastCall>>

VARIABLES
    processorHead,  \* BlockProcessor.head: hash of the current head (NoHash: none)
    received,       \* the head hashes the provider has delivered, in order
    emitted,        \* the NEW_HEAD(prevHead, newHead) events emitted, in order
    fatal           \* BlockProcessor: a block could not be added, it stopped

processorVars == <<processorHead, received, emitted, fatal>>

VARIABLES
    constructorArgs,    \* new Watcher(...): confirmationsBeforeResponse and
                        \* confirmationsBeforeRemoval passed to it
    constructorOutcome  \* how that construction ended

constructorVars == <<constructorArgs, constructorOutcome>>

VARIABLES
    toRun,      \* the Watcher actions one head event has fired and not yet
                \* run, in the order they run: [id, op]
    ran,        \* the actions run on that head event and how each ended
    storedIds,  \* ids of the appointments the store holds
    aborted     \* an action's exception reached handleNewStateEvent

actionVars == <<toRun, ran, storedIds, aborted>>

VARIABLES
    gasPrice,       \* EthereumDedicatedResponder.gasPrice
    maxAttempts,    \* EthereumDedicatedResponder.maxAttempts
    attempts,       \* the attempts made: the gas price sent and how it ended
    responseState   \* ResponseFlow.state: "Started", "Success" or "Failed"

dedicatedVars == <<gasPrice, maxAttempts, attempts, responseState>>

VARIABLES
    confirmationsRequired,  \* EthereumTransactionMiner.confirmationsRequired
    blocksThresholdForStuckTransaction,
    minerState,     \* sendTransaction: "sending", "waitFirst", "waitEnough",
                    \* "resolved" or "rejected"
    minerError,     \* the error sendTransaction rejected with ("none": none)
    blocksSinceSent,\* new blocks since lastBlockNumberSeen was read
    confirmations,  \* confirmations of the transaction (0: not mined)
    firstSeenAt,    \* blocksSinceSent when it got its first confirmation (0: never)
    timedOut        \* newBlockTimeout elapsed without a new block while waiting

minerVars == <<confirmationsRequired, blocksThresholdForStuckTransaction,
               minerState, minerError, blocksSinceSent, confirmations,
               firstSeenAt, timedOut>>

VARIABLES
    flowState,        \* per appointment, its response flow: "none", "started",
                      \* "nonceRead", "sent", "confirmed" or "failed"
    flowSigner,       \* per appointment, the signer of its responder ("none": no responder)
    flowNonce,        \* per appointment, the nonce its responder read (-1: none)
    transactionCount  \* getTransactionCount of the manager's signer

managerVars == <<flowState, flowSigner, flowNonce, transactionCount>>

VARIABLES
    responderState,     \* the ResponderAnchorState at the new head: per TxId
                        \* "absent", "Pending" or "Mined"
    queuedIds,          \* the TxIds of this.queue.queueItems
    ancestryLength,     \* blocks of blockCache.ancestry(head.hash)
    missingTransactions,\* the list handleNewStateEvent collected
    rebroadcast,        \* the TxIds handleNewStateEvent broadcast
    handled             \* its outcome: "none", "returned" or "TypeError"

headEventVars == <<responderState, queuedIds, ancestryLength, missingTransactions,
                   rebroadcast, handled>>

VARIABLES
    replacedSet,    \* TxIds of the replacedTransactions of one queue update
    sendFails,      \* those for which signer.sendTransaction rejects
    committed,      \* this.queue was assigned the updated queue
    tracked,        \* TxIds given to transactionTracker.addTx
    delivered,      \* per TxId, the signer.sendTransaction calls that succeeded
    loggedFailures, \* TxIds whose broadcast failure was logged
    ticks           \* head events handled after the broadcast

broadcastVars == <<replacedSet, sendFails, committed, tracked, delivered,
                   loggedFailures, ticks>>

VARIABLES
    responderAnchor,\* the ResponderAnchorState at the head: TxId -> state
    headBlocks      \* the transactions of the blocks of the head's ancestry
                    \* above the first head; block n is headBlocks[n]

reduceVars == <<responderAnchor, headBlocks>>

VARIABLES
    startPc,        \* startResponse: the provider call it awaits ("getAddress",
                    \* "getTransactionCount", "getInitialPrice"), "attempts",
                    \* "returned" or "rejected" (the promise of withLock rejected)
    startMaxAttempts,
    attemptsDone,   \* the attempts made, in order: outcome, "sent" emitted
    responseFlowState,  \* responseFlow.state
    terminalEvents, \* ResponseConfirmed / ResponseFailed events emitted
    locked          \* EthereumDedicatedResponder.locked

startVars == <<startPc, startMaxAttempts, attemptsDone, responseFlowState,
               terminalEvents, locked>>

VARIABLES
    trackedChain,           \* ancestry of the head above the block the tracker
                            \* started at: per block, the TxId of its
                            \* transaction ("-": none of interest)
    registeredIds,          \* TxIds given to addTx before the heads arrive
    trackerCallbacks,       \* keys of TransactionTracker.txCallbacks
    trackerLastBlockNumber, \* TransactionTracker.lastBlockNumber
    invokedCallbacks        \* the callbacks invoked: TxId and block number

trackerVars == <<trackedChain, registeredIds, trackerCallbacks,
                 trackerLastBlockNumber, invokedCallbacks>>

VARIABLES
    sendPc,         \* sendTransaction: "sendTransaction", "getBlockNumber",
                    \* "firstRace", "secondRace", "resolved" or "rejected"
    blockListener,  \* newBlockReceived is a "block" listener of the provider
    promises,       \* per waiting promise: "none", "pending", "settled"
                    \* or "cancelled"
    firedLate,      \* promises that settled after sendTransaction had settled
    requiredByMiner,    \* confirmationsRequired of this miner
    seenByMiner         \* confirmations the transaction has

cleanupVars == <<sendPc, blockListener, promises, firedLate, requiredByMiner,
                 seenByMiner>>

\* State of the parts that neither the Watcher nor the responder run uses
libraryVars == <<logVars, storeVars, cacheVars, processorVars,
                 constructorVars, actionVars, dedicatedVars, minerVars,
                 managerVars, headEventVars, broadcastVars, reduceVars,
                 startVars, trackerVars, cleanupVars>>

vars == <<watcherVars, responderVars, libraryVars>>

(***************************************************************************)
(* WatcherAppointmentState: WATCHING | OBSERVED{blockObserved}.  Undefined *)
(* stands for an id that has no entry in the mapped anchor state.          *)
(***************************************************************************)
Undefined == [state |-> "UNDEFINED", blockObserved |-> 0]
Watching == [state |-> "WATCHING", blockObserved |-> 0]
Observed(n) == [state |-> "OBSERVED", blockObserved |-> n]

\* hasLogMatchingEvent(block, filter), on the abstraction chain[n] of block n
hasLogMatchingEvent(ch, n, a) == a \in ch[n]

\* BlockCache.findAncestor(hash, pred): walks from the block toward older
\* blocks and returns the first one satisfying pred (0: none).
RECURSIVE findAncestor(_, _, _)
findAncestor(ch, n, a) ==
    IF n = 0 THEN 0
    ELSE IF hasLogMatchingEvent(ch, n, a) THEN n
    ELSE findAncestor(ch, n - 1, a)

\* AppointmentStateReducer.getInitialState(block)
getInitialState(ch, n, a) ==
    LET eventAncestor == findAncestor(ch, n, a)
    IN  IF eventAncestor = 0 THEN Watching ELSE Observed(eventAncestor)

\* AppointmentStateReducer.reduce(prevState, block)
reduce(prevState, ch, n, a) ==
    IF prevState.state = "WATCHING" /\ hasLogMatchingEvent(ch, n, a)
    THEN Observed(n)
    ELSE prevState

\* Component framework: fold reduce over the blocks from+1 .. to
RECURSIVE foldReduce(_, _, _, _, _)
foldReduce(st, ch, from, to, a) ==
    IF from >= to THEN st
    ELSE foldReduce(reduce(st, ch, from + 1, a), ch, from + 1, to, a)

\* Component framework + MappedStateReducer: the anchor state at the head of
\* ch, seeded with getInitialState at the common ancestor, for the items
\* the store holds now.
computeAnchor(ch, ancestor, items) ==
    [a \in Appointments |->
        IF a \in items
        THEN foldReduce(getInitialState(ch, ancestor, a), ch, ancestor, Len(ch), a)
        ELSE Undefined]

\* Watcher.getActions: the two conditions
shouldHaveStartedResponder(st, blockNumber, confResponse) ==
    IF st.state = "UNDEFINED" THEN FALSE
    ELSE st.state = "OBSERVED" /\ blockNumber - st.blockObserved + 1 >= confResponse

shouldRemoveAppointment(st, blockNumber, confRemoval) ==
    IF st.state = "UNDEFINED" THEN FALSE
    ELSE st.state = "OBSERVED" /\ blockNumber - st.blockObserved + 1 >= confRemoval

\* Watcher.getActions: the actions, in the order the framework runs them
getActions == <<"respond", "removeById">>

condition(name, st, blockNumber) ==
    IF name = "respond"
    THEN shouldHaveStartedResponder(st, blockNumber, confirmationsBeforeResponse)
    ELSE shouldRemoveAppointment(st, blockNumber, confirmationsBeforeRemoval)

\* StandardMappedComponent.handleNewStateEvent for one id: the actions whose
\* condition did not hold at (prevState, prevHead) and holds at (state, head)
RECURSIVE firedActions(_, _, _, _, _)
firedActions(i, prevSt, prevHead, st, head) ==
    IF i > Len(getActions) THEN <<>>
    ELSE LET name == getActions[i]
             rest == firedActions(i + 1, prevSt, prevHead, st, head)
         IN  IF ~condition(name, prevSt, prevHead) /\ condition(name, st, head)
             THEN <<[op |-> name, prev |-> prevHead, head |-> head]>> \o rest
             ELSE rest

\* Mutant: the constructor check is missing
constructorAcceptsAny(confResponse, confRemoval) == TRUE

\* Mutant: the constructor check also refuses equal confirmation counts
constructorAcceptsBelow(confResponse, confRemoval) == confResponse < confRemoval

\* Watcher constructor: the ArgumentError check
constructorAccepts(confResponse, confRemoval) == ~(confResponse > confRemoval)

InitWatcher ==
    /\ chain = <<>>
    /\ store = {}
    /\ anchor = [a \in Appointments |-> Undefined]
    /\ \E r \in 1..MaxConfirmations, m \in 1..MaxConfirmations :
          /\ constructorAccepts(r, m)
          /\ confirmationsBeforeResponse = r
          /\ confirmationsBeforeRemoval = m
    /\ calls = [a \in Appointments |-> <<>>]
    /\ lastEvent = [prev |-> 0, ancestor |-> 0]
    /\ reorgAt = -1
    /\ rewound = [a \in Appointments |-> FALSE]
    /\ addedAt = [a \in Appointments |-> -1]

\* AppointmentStore.addOrUpdateByStateLocator for a fresh state locator
AddAppointment(a) ==
    /\ addedAt[a] = -1
    /\ store' = store \cup {a}
    /\ addedAt' = [addedAt EXCEPT ![a] = Len(chain)]
    /\ UNCHANGED <<chain, anchor, confirmationsBeforeResponse,
                   confirmationsBeforeRemoval, calls, lastEvent, reorgAt, rewound>>
    /\ UNCHANGED <<responderVars, libraryVars>>

BlockLogs == SUBSET Appointments
NewBlockSeqs == UNION {[1..k -> BlockLogs] : k \in 1..MaxNewBlocks}

\* BlockProcessor NEW_HEAD(prevHead, head) as the Watcher component sees it:
\* the anchor state is recomputed and handleNewStateEvent runs the actions.
NewHead(ancestor, newBlocks) ==
    LET prevHead == Len(chain)
        ch == SubSeq(chain, 1, ancestor) \o newBlocks
        head == Len(ch)
        state == computeAnchor(ch, ancestor, store)
        fired == [a \in Appointments |->
                    IF state[a].state = "UNDEFINED" THEN <<>>
                    ELSE firedActions(1, anchor[a], prevHead, state[a], head)]
        removed == {a \in Appointments :
                      \E i \in 1..Len(fired[a]) : fired[a][i].op = "removeById"}
        isReorg == ancestor < prevHead
    IN  /\ head <= MaxHeight
        /\ isReorg => reorgAt = -1
        /\ chain' = ch
        /\ anchor' = state
        /\ calls' = [a \in Appointments |-> calls[a] \o fired[a]]
        /\ store' = store \ removed
        /\ lastEvent' = [prev |-> prevHead, ancestor |-> ancestor]
        /\ reorgAt' = IF isReorg THEN ancestor ELSE reorgAt
        /\ rewound' = IF isReorg
                       THEN [a \in Appointments |->
                               /\ a \in store
                               /\ anchor[a].state = "OBSERVED"
                               /\ ancestor < anchor[a].blockObserved]
                       ELSE rewound
        /\ UNCHANGED <<confirmationsBeforeResponse, confirmationsBeforeRemoval, addedAt>>
        /\ UNCHANGED <<responderVars, libraryVars>>

NextWatcher ==
    \/ \E a \in Appointments : AddAppointment(a)
    \/ \E ancestor \in 0..Len(chain), newBlocks \in NewBlockSeqs :
          NewHead(ancestor, newBlocks)

(***************************************************************************)
(* Watcher claims                                                          *)
(***************************************************************************)
\* First block of the current chain with a log matching a's filter (0: none)
FirstMatch(a) ==
    IF \E n \in 1..Len(chain) : a \in chain[n]
    THEN CHOOSE n \in 1..Len(chain) :
            a \in chain[n] /\ \A m \in 1..(n - 1) : a \notin chain[m]
    ELSE 0

CallsOf(a, name) == SelectSeq(calls[a], LAMBDA c : c.op = name)

\* The chain has only been extended, and a entered the store below the
\* first block that matches its filter
WatchedFromBefore(a) ==
    /\ reorgAt = -1
    /\ addedAt[a] >= 0
    /\ FirstMatch(a) > 0
    /\ addedAt[a] < FirstMatch(a)

\* C1: on a chain that only extends, respond(a) is called exactly once, at
\* the first head h with h - b + 1 >= confirmationsBeforeResponse, where b is
\* the first block matching a's filter, and at no earlier and no later head.
C1_RespondOnceAtThreshold ==
    \A a \in Appointments :
        WatchedFromBefore(a) =>
            LET due == FirstMatch(a) + confirmationsBeforeResponse - 1
                responds == CallsOf(a, "respond")
            IN  IF Len(chain) >= due
                THEN /\ Len(responds) = 1
                     /\ responds[1].head >= due
                     /\ responds[1].prev < due
                ELSE responds = <<>>

\* No block above the fork point of the current chain matches a's filter
NoMatchAbove(ch, ancestor, a) == \A n \in (ancestor + 1)..Len(ch) : a \notin ch[n]

\* C2: when the head moves to a fork whose common ancestor lies below
\* blockObserved and the fork holds no matching log, the state at the new
\* head is WATCHING, neither Respond nor Evict fires on the new chain until a
\* matching log appears on it, and the appointment stays in the store.
C2_ReorgResets ==
    [][\A a \in Appointments :
          (/\ reorgAt' >= 0
           /\ rewound'[a]
           /\ a \in store
           /\ NoMatchAbove(chain', reorgAt', a))
          => (/\ anchor'[a] = Watching
              /\ calls'[a] = calls[a]
              /\ a \in store')]_vars

\* C3: store.removeById(id) is never executed for an appointment before
\* responder.respond(appointment) has been called for it.
C3_RespondBeforeEvict ==
    \A a \in Appointments :
        \A i \in 1..Len(calls[a]) :
            calls[a][i].op = "removeById" =>
                \E j \in 1..(i - 1) : calls[a][j].op = "respond"

\* C3 witness: an appointment added when its event was already in the chain
\* crossed both thresholds at one head: respond, then removeById
C3_Witness ==
    \E a \in Appointments :
        /\ Len(calls[a]) = 2
        /\ calls[a][1].op = "respond"
        /\ calls[a][2].op = "removeById"
        /\ calls[a][1].head = calls[a][2].head
        /\ confirmationsBeforeResponse < confirmationsBeforeRemoval
        /\ addedAt[a] >= FirstMatch(a)
        /\ FirstMatch(a) > 0

\* C4: on a chain that only extends, the appointment is removed from the
\* store at the first head h with h - b + 1 >= confirmationsBeforeRemoval,
\* b the block of its event, and is in the store at every earlier head.
C4_EvictAtThreshold ==
    \A a \in Appointments :
        WatchedFromBefore(a) =>
            LET due == FirstMatch(a) + confirmationsBeforeRemoval - 1
                removals == CallsOf(a, "removeById")
            IN  IF Len(chain) >= due
                THEN /\ a \notin store
                     /\ Len(removals) = 1
                     /\ removals[1].head >= due
                     /\ removals[1].prev < due
                ELSE a \in store /\ removals = <<>>

\* The step appends blocks to the chain and removes none
Extends == Len(chain') > Len(chain) /\ SubSeq(chain', 1, Len(chain)) = chain

\* C15: along a chain that only extends, an appointment whose state is
\* OBSERVED{blockObserved: n} at some head is OBSERVED with the same n at
\* every later head, also when later blocks hold further matching logs.
C15_ObservedIsStable ==
    [][\A a \in Appointments :
          (Extends /\ anchor[a].state = "OBSERVED" /\ anchor'[a].state # "UNDEFINED")
              => anchor'[a] = anchor[a]
      ]_vars

\* The state the framework computes at the head when it seeds at block A
SeededAt(A, a) == foldReduce(getInitialState(chain, A, a), chain, A, Len(chain), a)

\* C16: the anchor state at a head depends on the head's ancestry only:
\* seeding getInitialState at any ancestor A and folding reduce from A to
\* the head gives the same state, blockObserved included, whatever A is.
C16_StateIsFunctionOfAncestry ==
    \A a \in store :
        \A A \in 0..Len(chain) :
            /\ SeededAt(A, a) = SeededAt(0, a)
            /\ anchor[a].state # "UNDEFINED" => anchor[a] = SeededAt(A, a)

(***************************************************************************)
(* GasQueue: an ordered list of items, the nonce of the next item to be    *)
(* appended (emptyNonce), and the operations MultiResponder calls.         *)
(***************************************************************************)
NoQueue == [isSet |-> FALSE, queueItems |-> <<>>, emptyNonce |-> 0]
GasQueue(items, nonce) == [isSet |-> TRUE, queueItems |-> items, emptyNonce |-> nonce]

\* The lowest price a node accepts as a replacement of price g
getReplacementGasPrice(g) == (g * (100 + replacementRate) + 99) \div 100

Max(x, y) == IF x >= y THEN x ELSE y

GasQueueItem(req, id, idealGas, nonce, currentGas) ==
    [req |-> req, id |-> id, idealGas |-> idealGas, nonce |-> nonce,
     currentGas |-> currentGas]

\* An item moved one nonce up, re-priced as a replacement of itself
shiftUp(item) ==
    [item EXCEPT !.nonce = @ + 1, !.currentGas = getReplacementGasPrice(@)]

shiftAll(items) == [i \in 1..Len(items) |-> shiftUp(items[i])]

\* Position of a new request: after every item whose gas is not lower
insertIndex(items, idealGas) ==
    IF \E i \in 1..Len(items) : items[i].currentGas < idealGas
    THEN CHOOSE i \in 1..Len(items) :
            /\ items[i].currentGas < idealGas
            /\ \A j \in 1..(i - 1) : items[j].currentGas >= idealGas
    ELSE Len(items) + 1

add(q, req, id, idealGas) ==
    LET items == q.queueItems
        k == insertIndex(items, idealGas)
        kept == SubSeq(items, 1, k - 1)
        displaced == SubSeq(items, k, Len(items))
        nonce == IF displaced = <<>> THEN q.emptyNonce ELSE displaced[1].nonce
        gas == IF displaced = <<>> THEN idealGas
               ELSE Max(idealGas, getReplacementGasPrice(displaced[1].currentGas))
    IN  GasQueue(kept \o <<GasQueueItem(req, id, idealGas, nonce, gas)>>
                      \o shiftAll(displaced),
                 q.emptyNonce + 1)

depthReached(q, maxQueueDepth) == Len(q.queueItems) >= maxQueueDepth

contains(q, id) == \E i \in 1..Len(q.queueItems) : q.queueItems[i].id = id

dequeue(q) == GasQueue(Tail(q.queueItems), q.emptyNonce)

indexOf(items, id) ==
    CHOOSE i \in 1..Len(items) :
        /\ items[i].id = id
        /\ \A j \in 1..(i - 1) : items[j].id # id

consume(q, id) ==
    LET items == q.queueItems
        k == indexOf(items, id)
    IN  GasQueue(shiftAll(SubSeq(items, 1, k - 1)) \o SubSeq(items, k + 1, Len(items)),
                 q.emptyNonce)

\* The items of q that prev does not hold with the same nonce and gas
difference(q, prev) ==
    SelectSeq(q.queueItems,
              LAMBDA item : \A j \in 1..Len(prev.queueItems) :
                                prev.queueItems[j] # item)

(***************************************************************************)
(* MultiResponder and TransactionTracker.  A startResponse call is a       *)
(* process that yields at setup's RPCs and at the gas estimate; a txMined  *)
(* call made by checkTxs runs after its (already resolved) setup await,    *)
(* before any other task.                                                  *)
(***************************************************************************)
Requests == 1..MaxRequests

QueueConsistencyErrors == {"empty", "notInQueue", "nonceMismatch"}

NoCall == [id |-> "-", nonce |-> -1, outcome |-> "none"]

\* provider.getTransactionCount(address) of a signer that has sent nothing
getTransactionCount == 0

\* Mutant: every item of the new queue is sent again
replacedTransactionsAll(newQueue, oldQueue) == newQueue.queueItems

\* Mutant: of the changed items only the first is sent
replacedTransactionsFirst(newQueue, oldQueue) ==
    SubSeq(difference(newQueue, oldQueue), 1, 1)

replacedTransactions(newQueue, oldQueue) == difference(newQueue, oldQueue)

txMinedOutcome(outcome, q, replaced) ==
    [outcome |-> outcome, queue |-> q, replaced |-> replaced]

\* Mutant: the front item is dequeued whenever the nonce is the front's
txMinedByNonce(q, id, nonce) ==
    IF q.queueItems = <<>> THEN txMinedOutcome("empty", q, <<>>)
    ELSE IF q.queueItems[1].nonce # nonce
    THEN txMinedOutcome("nonceMismatch", q, <<>>)
    ELSE txMinedOutcome("dequeued", dequeue(q), <<>>)

\* Mutant: the nonce of the front item is not compared
txMinedAnyNonce(q, id, nonce) ==
    IF q.queueItems = <<>> THEN txMinedOutcome("empty", q, <<>>)
    ELSE IF ~contains(q, id) THEN txMinedOutcome("notInQueue", q, <<>>)
    ELSE IF id = q.queueItems[1].id
    THEN txMinedOutcome("dequeued", dequeue(q), <<>>)
    ELSE LET reducedQueue == consume(q, id)
         IN  txMinedOutcome("consumed", reducedQueue,
                            replacedTransactions(reducedQueue, q))

\* Mutant: a mined transaction that is not the front item is an error
txMinedFrontOnly(q, id, nonce) ==
    IF q.queueItems = <<>> THEN txMinedOutcome("empty", q, <<>>)
    ELSE IF ~contains(q, id) THEN txMinedOutcome("notInQueue", q, <<>>)
    ELSE IF q.queueItems[1].nonce # nonce \/ id # q.queueItems[1].id
    THEN txMinedOutcome("nonceMismatch", q, <<>>)
    ELSE txMinedOutcome("dequeued", dequeue(q), <<>>)

\* Mutant: after a front dequeue the rest of the queue is sent again
txMinedRebroadcast(q, id, nonce) ==
    IF q.queueItems = <<>> THEN txMinedOutcome("empty", q, <<>>)
    ELSE IF ~contains(q, id) THEN txMinedOutcome("notInQueue", q, <<>>)
    ELSE IF q.queueItems[1].nonce # nonce
    THEN txMinedOutcome("nonceMismatch", q, <<>>)
    ELSE IF id = q.queueItems[1].id
    THEN txMinedOutcome("dequeued", dequeue(q), dequeue(q).queueItems)
    ELSE LET reducedQueue == consume(q, id)
         IN  txMinedOutcome("consumed", reducedQueue,
                            replacedTransactions(reducedQueue, q))

txMined(q, id, nonce) ==
    IF q.queueItems = <<>> THEN txMinedOutcome("empty", q, <<>>)
    ELSE IF ~contains(q, id) THEN txMinedOutcome("notInQueue", q, <<>>)
    ELSE IF q.queueItems[1].nonce # nonce
    THEN txMinedOutcome("nonceMismatch", q, <<>>)
    ELSE IF id = q.queueItems[1].id
    THEN txMinedOutcome("dequeued", dequeue(q), <<>>)
    ELSE LET reducedQueue == consume(q, id)
         IN  txMinedOutcome("consumed", reducedQueue,
                            replacedTransactions(reducedQueue, q))

\* broadcast: addTx(identifier, txMined), then signer.sendTransaction
transactionRequests(items) ==
    [i \in 1..Len(items) |->
        [req |-> items[i].req, id |-> items[i].id, nonce |-> items[i].nonce,
         gasPrice |-> items[i].currentGas]]

addTx(callbacks, items) == callbacks \cup {items[i].req : i \in 1..Len(items)}

InitResponder ==
    /\ queue = NoQueue
    /\ maxConcurrentResponses \in 1..MaxQueueDepth
    /\ responses = [p \in Requests |-> [pc |-> "idle", id |-> "-"]]
    /\ txCallbacks = {}
    /\ lastBlockNumber = 0
    /\ minedCalls = <<>>
    /\ sent = <<>>
    /\ lastMined = NoCall
    /\ removedCount = [id \in TxIds |-> 0]

\* The response data a request may carry: data seen before, or new data,
\* which is given the next name
usedTxIds == {responses[r].id : r \in Requests} \cap TxIds
responseData ==
    usedTxIds \cup (IF Cardinality(usedTxIds) < Len(TxIdOrder)
                    THEN {TxIdOrder[Cardinality(usedTxIds) + 1]} ELSE {})

\* startResponse up to its first await that suspends
StartResponse(p, id) ==
    /\ minedCalls = <<>>
    /\ responses[p].pc = "idle"
    /\ id \in responseData
    /\ \A r \in Requests : r < p => responses[r].pc # "idle"
    /\ responses' = [responses EXCEPT ![p] =
            [pc |-> IF ~queue.isSet THEN "setup"
                    ELSE IF depthReached(queue, maxConcurrentResponses)
                    THEN "rejected" ELSE "estimate",
             id |-> id]]
    /\ UNCHANGED <<queue, maxConcurrentResponses, txCallbacks, lastBlockNumber,
                   minedCalls, sent, lastMined, removedCount>>
    /\ UNCHANGED <<watcherVars, libraryVars>>

\* setup's RPCs return: the queue is assigned, then depthReached is asked
SetupDone(p) ==
    LET newQueue == GasQueue(<<>>, getTransactionCount)
    IN  /\ minedCalls = <<>>
        /\ responses[p].pc = "setup"
        /\ queue' = newQueue
        /\ responses' = [responses EXCEPT ![p].pc =
                IF depthReached(newQueue, maxConcurrentResponses)
                THEN "rejected" ELSE "estimate"]
        /\ UNCHANGED <<maxConcurrentResponses, txCallbacks, lastBlockNumber,
                       minedCalls, sent, lastMined, removedCount>>
        /\ UNCHANGED <<watcherVars, libraryVars>>

\* gasEstimator.estimate returns: add, commit, broadcast the difference
EstimateDone(p, idealGas) ==
    LET replacedQueue == add(queue, p, responses[p].id, idealGas)
        replaced == replacedTransactions(replacedQueue, queue)
    IN  /\ minedCalls = <<>>
        /\ responses[p].pc = "estimate"
        /\ queue' = replacedQueue
        /\ txCallbacks' = addTx(txCallbacks, replaced)
        /\ sent' = sent \o transactionRequests(replaced)
        /\ responses' = [responses EXCEPT ![p].pc = "added"]
        /\ UNCHANGED <<maxConcurrentResponses, lastBlockNumber, minedCalls,
                       lastMined, removedCount>>
        /\ UNCHANGED <<watcherVars, libraryVars>>

NoTx == [id |-> "-", nonce |-> -1]

\* What a block can hold: nothing of ours, or a transaction the signer sent
BlockTxs ==
    {NoTx} \cup {[id |-> sent[i].id, nonce |-> sent[i].nonce] : i \in 1..Len(sent)}

\* The blocks checkTxs walks, head first; one account's nonces grow with
\* the block number
Walks(n) ==
    {w \in [1..n -> BlockTxs] :
        \A i, j \in 1..n :
            (i < j /\ w[i] # NoTx /\ w[j] # NoTx) => w[i].nonce > w[j].nonce}

matchingCallbacks(callbacks, tx) ==
    IF tx = NoTx THEN {} ELSE {p \in callbacks : responses[p].id = tx.id}

\* The callbacks still registered when block i of the walk is inspected
RECURSIVE callbacksAt(_, _, _)
callbacksAt(callbacks, walk, i) ==
    IF i = 1 THEN callbacks
    ELSE LET before == callbacksAt(callbacks, walk, i - 1)
         IN  before \ matchingCallbacks(before, walk[i - 1])

\* One callback invocation per matching key
\* (block is the number of the block the transaction was found in)
RECURSIVE invocations(_, _, _)
invocations(tx, block, n) ==
    IF n = 0 THEN <<>>
    ELSE <<[id |-> tx.id, nonce |-> tx.nonce, block |-> block]>>
         \o invocations(tx, block, n - 1)

\* walk[i] is the block numbered blockNumber - i + 1
RECURSIVE callbackCalls(_, _, _, _)
callbackCalls(callbacks, walk, blockNumber, i) ==
    IF i > Len(walk) THEN <<>>
    ELSE invocations(walk[i], blockNumber - i + 1,
                     Cardinality(matchingCallbacks(callbacksAt(callbacks, walk, i),
                                                   walk[i])))
         \o callbackCalls(callbacks, walk, blockNumber, i + 1)

\* TransactionTracker.checkTxs on a NEW_HEAD event
CheckTxs(blockNumber, walk) ==
    /\ minedCalls = <<>>
    /\ minedCalls' = callbackCalls(txCallbacks, walk, blockNumber, 1)
    /\ txCallbacks' = callbacksAt(txCallbacks, walk, Len(walk) + 1)
    /\ lastBlockNumber' = blockNumber
    /\ UNCHANGED <<queue, maxConcurrentResponses, responses, sent, lastMined,
                   removedCount>>
    /\ UNCHANGED <<watcherVars, libraryVars>>

\* MultiResponder.txMined, from its await on setup to its end
TxMined ==
    /\ minedCalls # <<>>
    /\ LET call == Head(minedCalls)
           result == txMined(queue, call.id, call.nonce)
       IN  /\ queue' = result.queue
           /\ txCallbacks' = addTx(txCallbacks, result.replaced)
           /\ sent' = sent \o transactionRequests(result.replaced)
           /\ lastMined' = [id |-> call.id, nonce |-> call.nonce,
                            outcome |-> result.outcome]
           /\ removedCount' =
                IF result.outcome \in QueueConsistencyErrors THEN removedCount
                ELSE [removedCount EXCEPT ![call.id] = @ + 1]
    /\ minedCalls' = Tail(minedCalls)
    /\ UNCHANGED <<maxConcurrentResponses, responses, lastBlockNumber>>
    /\ UNCHANGED <<watcherVars, libraryVars>>

NextResponder ==
    \/ \E p \in Requests, id \in TxIds : StartResponse(p, id)
    \/ \E p \in Requests : SetupDone(p)
    \/ \E p \in Requests, idealGas \in GasValues : EstimateDone(p, idealGas)
    \/ \E blockNumber \in 1..MaxBlockNumber :
          \E walk \in Walks(IF blockNumber > lastBlockNumber
                            THEN blockNumber - lastBlockNumber ELSE 0) :
              CheckTxs(blockNumber, walk)
    \/ TxMined

(***************************************************************************)
(* The comparison of a log with an event filter, made by                   *)
(* hasLogMatchingEvent for each log of a block.                            *)
(***************************************************************************)
Null == "null"
Addresses == {"0x9e", "0x81"}
TopicValues == {"0x73", "0x01"}

RECURSIVE SeqsUpTo(_, _)
SeqsUpTo(S, n) ==
    IF n = 0 THEN {<<>>}
    ELSE SeqsUpTo(S, n - 1) \cup {Append(q, x) : q \in SeqsUpTo(S, n - 1), x \in S}

EventFilters ==
    [address : Addresses, topics : SeqsUpTo(TopicValues \cup {Null}, MaxTopics)]
Logs == [address : Addresses, topics : SeqsUpTo(TopicValues, MaxTopics)]

\* log.address === filter.address && filter.topics.every((topic, idx) =>
\* log.topics[idx] === topic); a missing log.topics[idx] is undefined
logMatchesFilter(log, filter) ==
    /\ log.address = filter.address
    /\ \A idx \in 1..Len(filter.topics) :
          /\ idx <= Len(log.topics)
          /\ log.topics[idx] = filter.topics[idx]

InitLog ==
    /\ eventFilter \in EventFilters
    /\ eventLog \in Logs
    /\ matchResult = "none"

IdleLog ==
    /\ eventFilter = [address |-> "0x9e", topics |-> <<>>]
    /\ eventLog = [address |-> "0x9e", topics |-> <<>>]
    /\ matchResult = "none"

MatchLog ==
    /\ matchResult = "none"
    /\ matchResult' = IF logMatchesFilter(eventLog, eventFilter)
                      THEN "match" ELSE "noMatch"
    /\ UNCHANGED <<eventFilter, eventLog>>
    /\ UNCHANGED <<watcherVars, responderVars, storeVars, cacheVars, processorVars,
                   constructorVars, actionVars, dedicatedVars, minerVars,
                   managerVars, headEventVars, broadcastVars, reduceVars,
                   startVars, trackerVars, cleanupVars>>

\* C14: a log matches a filter iff the addresses are equal and every topic
\* position of the filter holds null (a wildcard) or the log's topic at
\* that position.
C14_NullTopicIsWildcard ==
    matchResult # "none" =>
        (matchResult = "match" <=>
            /\ eventLog.address = eventFilter.address
            /\ \A i \in 1..Len(eventFilter.topics) :
                  \/ eventFilter.topics[i] = Null
                  \/ /\ i <= Len(eventLog.topics)
                     /\ eventFilter.topics[i] = eventLog.topics[i])

(***************************************************************************)
(* AppointmentStore: appointments indexed by state locator, and the        *)
(* Watcher.addAppointment that feeds it.                                   *)
(***************************************************************************)
AppointmentIds == {"id1", "id2", "id3"}
StateLocators == {"s1", "s2"}
StateNonces == 0..MaxStateNonce
StoredAppointments ==
    [id : AppointmentIds, stateLocator : StateLocators, stateNonce : StateNonces]
NoAppointment == [id |-> "-", stateLocator |-> "-", stateNonce |-> -1]
NoAdd == [appointment |-> NoAppointment, outcome |-> "none"]

getAll(byLocator) == {byLocator[l] : l \in StateLocators} \ {NoAppointment}

\* The nonce test with an equal nonce let through
replacesOrEqual(current, a) ==
    current = NoAppointment \/ current.stateNonce <= a.stateNonce

\* i) an entry with a lower nonce is updated, ii) one with a higher or
\* equal nonce rejects the new appointment, iii) no entry: it is added
replaces(current, a) ==
    current = NoAppointment \/ current.stateNonce < a.stateNonce

addOrUpdateByStateLocator(byLocator, a) ==
    IF replaces(byLocator[a.stateLocator], a)
    THEN [updated |-> TRUE, entries |-> [byLocator EXCEPT ![a.stateLocator] = a]]
    ELSE [updated |-> FALSE, entries |-> byLocator]

removeById(byLocator, id) ==
    [l \in StateLocators |->
        IF byLocator[l].id = id THEN NoAppointment ELSE byLocator[l]]

InitStore ==
    /\ appointmentsByStateLocator = [l \in StateLocators |-> NoAppointment]
    /\ addResult = NoAdd
    /\ storeOp = "none"

IdleStore == InitStore

\* Watcher.addAppointment (the store-backed Watcher): an appointment is a
\* new one (its id is not held) or one the store holds, sent again
addAppointment(a, passedInspection) ==
    /\ \/ a \in getAll(appointmentsByStateLocator)
       \/ a.id \notin {e.id : e \in getAll(appointmentsByStateLocator)}
    /\ IF ~passedInspection
       THEN /\ addResult' = [appointment |-> a, outcome |-> "ConfigurationError"]
            /\ storeOp' = "none"
            /\ UNCHANGED appointmentsByStateLocator
       ELSE LET r == addOrUpdateByStateLocator(appointmentsByStateLocator, a)
            IN  /\ appointmentsByStateLocator' = r.entries
                /\ addResult' = [appointment |-> a,
                                 outcome |-> IF r.updated THEN "true" ELSE "false"]
                /\ storeOp' = "addOrUpdateByStateLocator"
    /\ UNCHANGED <<watcherVars, responderVars, logVars, cacheVars, processorVars,
                   constructorVars, actionVars, dedicatedVars, minerVars,
                   managerVars, headEventVars, broadcastVars, reduceVars,
                   startVars, trackerVars, cleanupVars>>

RemoveById(id) ==
    /\ appointmentsByStateLocator' = removeById(appointmentsByStateLocator, id)
    /\ storeOp' = "removeById"
    /\ UNCHANGED addResult
    /\ UNCHANGED <<watcherVars, responderVars, logVars, cacheVars, processorVars,
                   constructorVars, actionVars, dedicatedVars, minerVars,
                   managerVars, headEventVars, broadcastVars, reduceVars,
                   startVars, trackerVars, cleanupVars>>

NextStore ==
    \/ \E a \in StoredAppointments, passedInspection \in BOOLEAN :
          addAppointment(a, passedInspection)
    \/ \E id \in AppointmentIds : RemoveById(id)

\* C17: addOrUpdateByStateLocator(a) returns true and stores a as the entry
\* of a.stateLocator iff the store holds no entry for a.stateLocator with
\* stateNonce >= a.stateNonce; otherwise it returns false and leaves the
\* store as it was (an equal nonce is rejected).
C17_StoreNonceRule ==
    [][storeOp' = "addOrUpdateByStateLocator" =>
          LET a == addResult'.appointment
              current == appointmentsByStateLocator[a.stateLocator]
              blocked == current # NoAppointment /\ current.stateNonce >= a.stateNonce
          IN  IF blocked
              THEN /\ addResult'.outcome = "false"
                   /\ appointmentsByStateLocator' = appointmentsByStateLocator
              ELSE /\ addResult'.outcome = "true"
                   /\ appointmentsByStateLocator'[a.stateLocator] = a
                   /\ \A l \in StateLocators \ {a.stateLocator} :
                         appointmentsByStateLocator'[l] = appointmentsByStateLocator[l]
      ]_vars

\* A different appointment with the nonce of the stored one was rejected
C17_Witness ==
    /\ storeOp = "addOrUpdateByStateLocator"
    /\ addResult.outcome = "false"
    /\ LET a == addResult.appointment
       IN  /\ appointmentsByStateLocator[a.stateLocator].stateNonce = a.stateNonce
           /\ appointmentsByStateLocator[a.stateLocator].id # a.id

(***************************************************************************)
(* BlockCache: the blocks within maxDepth of the highest one, by hash.     *)
(* The blocks come from two chains, "main" and "other", that share block   *)
(* 0; every block holds one transaction of its own.                        *)
(***************************************************************************)
Chains == {"main", "other"}
NoHash == [chain |-> "-", height |-> -1]
BlockHashes ==
    {[chain |-> "main", height |-> 0]}
        \cup [chain : Chains, height : 1..MaxCacheHeight]
parentOf(hash) ==
    IF hash.height = 0 THEN NoHash
    ELSE IF hash.height = 1 THEN [chain |-> "main", height |-> 0]
    ELSE [chain |-> hash.chain, height |-> hash.height - 1]
txOf(hash) == <<hash.chain, hash.height, "tx1">>
Block(hash) ==
    [number |-> hash.height, hash |-> hash, parentHash |-> parentOf(hash),
     transactions |-> {txOf(hash)}]
generateBlocks == {Block(h) : h \in BlockHashes}
nonExistingTxHash == <<"-", -1, "nonExistingTxHash">>
NoTxHash == <<"-", -1, "-">>
TxHashes == {txOf(h) : h \in BlockHashes} \cup {nonExistingTxHash}
NoBlock == [number |-> -1, hash |-> NoHash, parentHash |-> NoHash, transactions |-> {}]
NoCacheCall == [op |-> "none", block |-> NoBlock, txHash |-> NoTxHash, result |-> "-"]

SetMax(S) == CHOOSE x \in S : \A y \in S : y <= x

isEmpty(bs) == bs = {}
maxHeight(bs) == IF bs = {} THEN 0 ELSE SetMax({b.number : b \in bs})

\* minHeight as the lower of the two heights
minHeightLowest(bs, initial, depth) ==
    IF initial <= maxHeight(bs) - depth THEN initial ELSE maxHeight(bs) - depth

\* minHeight that stays at the initial block height
minHeightInitial(bs, initial, depth) == initial

\* the initial block height while fewer than maxDepth blocks lie above it,
\* then the highest added block's height minus maxDepth
minHeight(bs, initial, depth) ==
    IF initial >= maxHeight(bs) - depth THEN initial ELSE maxHeight(bs) - depth

hasBlock(bs, hash) == \E b \in bs : b.hash = hash
getBlockStub(bs, hash) ==
    IF hasBlock(bs, hash) THEN CHOOSE b \in bs : b.hash = hash ELSE NoBlock

\* canAddBlock without the parent test
canAddBlockByHeight(bs, initial, depth, b) ==
    isEmpty(bs) \/ b.number <= minHeight(bs, initial, depth)

canAddBlock(bs, initial, depth, b) ==
    \/ isEmpty(bs)
    \/ b.number <= minHeight(bs, initial, depth)
    \/ hasBlock(bs, b.parentHash)

\* Eviction that also drops the blocks at height maxHeight - maxDepth
pruneInclusive(bs, depth) == {b \in bs : b.number > maxHeight(bs) - depth}

prune(bs, depth) == {b \in bs : b.number >= maxHeight(bs) - depth}

\* The blocks from hash towards older blocks along parentHash, nearest first
RECURSIVE ancestry(_, _)
ancestry(bs, hash) ==
    IF ~hasBlock(bs, hash) THEN <<>>
    ELSE <<getBlockStub(bs, hash)>> \o ancestry(bs, getBlockStub(bs, hash).parentHash)

\* getConfirmations as a count of the ancestry blocks that hold txHash
getConfirmationsCount(bs, headHash, txHash) ==
    LET path == ancestry(bs, headHash)
    IN  Cardinality({i \in 1..Len(path) : txHash \in path[i].transactions})

\* getConfirmations over every generated block, cached or not
getConfirmationsUncached(bs, headHash, txHash) ==
    LET path == ancestry(generateBlocks, headHash)
        holders == {i \in 1..Len(path) : txHash \in path[i].transactions}
    IN  IF holders = {} THEN 0
        ELSE path[1].number - path[CHOOSE i \in holders : TRUE].number + 1

\* Blocks from the head down to the block that holds txHash, both counted
\* (7 for a transaction of block 0 under head 6, 6 for one of block 1);
\* 0 for a transaction that no block of the ancestry holds
getConfirmations(bs, headHash, txHash) ==
    LET path == ancestry(bs, headHash)
        holders == {i \in 1..Len(path) : txHash \in path[i].transactions}
    IN  IF holders = {} THEN 0
        ELSE path[1].number - path[CHOOSE i \in holders : \A j \in holders : i <= j].number + 1

InitCache ==
    /\ maxDepth \in 1..MaxCacheDepth
    /\ blocks = {}
    /\ initialHeight = -1
    /\ addedBlocks = {}
    /\ lastCall = NoCacheCall

IdleCache ==
    /\ maxDepth = 1
    /\ blocks = {}
    /\ initialHeight = -1
    /\ addedBlocks = {}
    /\ lastCall = NoCacheCall

AddBlock(b) ==
    /\ IF canAddBlock(blocks, initialHeight, maxDepth, b)
       THEN /\ blocks' = prune(blocks \cup {b}, maxDepth)
            /\ initialHeight' = IF isEmpty(blocks) THEN b.number ELSE initialHeight
            /\ addedBlocks' = addedBlocks \cup {b}
            /\ lastCall' = [op |-> "addBlock", block |-> b, txHash |-> NoTxHash,
                            result |-> "added"]
       ELSE /\ lastCall' = [op |-> "addBlock", block |-> b, txHash |-> NoTxHash,
                            result |-> "rejected"]
            /\ UNCHANGED <<blocks, initialHeight, addedBlocks>>
    /\ UNCHANGED maxDepth
    /\ UNCHANGED <<watcherVars, responderVars, logVars, storeVars, processorVars,
                   constructorVars, actionVars, dedicatedVars, minerVars,
                   managerVars, headEventVars, broadcastVars, reduceVars,
                   startVars, trackerVars, cleanupVars>>

CanAddBlock(b) ==
    /\ lastCall' = [op |-> "canAddBlock", block |-> b, txHash |-> NoTxHash,
                    result |-> canAddBlock(blocks, initialHeight, maxDepth, b)]
    /\ UNCHANGED <<maxDepth, blocks, initialHeight, addedBlocks>>
    /\ UNCHANGED <<watcherVars, responderVars, logVars, storeVars, processorVars,
                   constructorVars, actionVars, dedicatedVars, minerVars,
                   managerVars, headEventVars, broadcastVars, reduceVars,
                   startVars, trackerVars, cleanupVars>>

GetConfirmations(head, txHash) ==
    /\ head \in blocks
    /\ lastCall' = [op |-> "getConfirmations", block |-> head, txHash |-> txHash,
                    result |-> getConfirmations(blocks, head.hash, txHash)]
    /\ UNCHANGED <<maxDepth, blocks, initialHeight, addedBlocks>>
    /\ UNCHANGED <<watcherVars, responderVars, logVars, storeVars, processorVars,
                   constructorVars, actionVars, dedicatedVars, minerVars,
                   managerVars, headEventVars, broadcastVars, reduceVars,
                   startVars, trackerVars, cleanupVars>>

MinHeight ==
    /\ ~isEmpty(blocks)
    /\ lastCall' = [op |-> "minHeight", block |-> NoBlock, txHash |-> NoTxHash,
                    result |-> minHeight(blocks, initialHeight, maxDepth)]
    /\ UNCHANGED <<maxDepth, blocks, initialHeight, addedBlocks>>
    /\ UNCHANGED <<watcherVars, responderVars, logVars, storeVars, processorVars,
                   constructorVars, actionVars, dedicatedVars, minerVars,
                   managerVars, headEventVars, broadcastVars, reduceVars,
                   startVars, trackerVars, cleanupVars>>

NextCache ==
    \/ \E b \in generateBlocks : AddBlock(b)
    \/ MinHeight
    \/ \E b \in generateBlocks : CanAddBlock(b)
    \/ \E head \in generateBlocks, txHash \in TxHashes : GetConfirmations(head, txHash)

\* C18: after any sequence of blocks accepted by addBlock, every block the
\* cache retains has number >= maxHeight - maxDepth, and every accepted
\* block with number >= maxHeight - maxDepth is returned by getBlockStub.
C18_CacheDepth ==
    /\ \A b \in blocks : b.number >= maxHeight(blocks) - maxDepth
    /\ \A b \in addedBlocks :
          b.number >= maxHeight(blocks) - maxDepth
              => getBlockStub(blocks, b.hash) = b

\* The main chain was added from block 0 up to block maxDepth + 1: block 0
\* is forgotten, block 1, at depth maxDepth, is kept
C18_Witness ==
    /\ addedBlocks = {b \in generateBlocks :
                         b.hash.chain = "main" /\ b.number <= maxDepth + 1}
    /\ getBlockStub(blocks, [chain |-> "main", height |-> 0]) = NoBlock
    /\ getBlockStub(blocks, [chain |-> "main", height |-> 1]) # NoBlock

\* C19: canAddBlock(b) is true iff the cache is empty, or b.number is at
\* most minHeight, or b.parentHash is the hash of a block in the cache.
C19_CanAddBlock ==
    lastCall.op = "canAddBlock" =>
        LET b == lastCall.block
        IN  lastCall.result = TRUE <=>
                \/ blocks = {}
                \/ b.number <= minHeight(blocks, initialHeight, maxDepth)
                \/ \E c \in blocks : c.hash = b.parentHash

\* canAddBlock returned false: the cache holds blocks, the block is above
\* minHeight and the cache holds a block of its chain but not its parent
C19_Witness ==
    /\ lastCall.op = "canAddBlock"
    /\ lastCall.result = FALSE
    /\ lastCall.block.number > minHeight(blocks, initialHeight, maxDepth)
    /\ \E c \in blocks : c.hash.chain = lastCall.block.hash.chain

\* The blocks of the ancestry of the head of the last getConfirmations call
\* that hold its transaction
Holders ==
    LET path == ancestry(blocks, lastCall.block.hash)
    IN  {path[i] : i \in {j \in 1..Len(path) : lastCall.txHash \in path[j].transactions}}

\* C20 as stated: getConfirmations(head, tx) is the number of blocks on the
\* ancestry of head, head included, whose transactions contain tx.
C20_ConfirmationsCountBlocks ==
    lastCall.op = "getConfirmations" => lastCall.result = Cardinality(Holders)

\* C20: getConfirmations(head, tx) is the number of blocks from head down
\* to the ancestry block that contains tx, both included, and 0 when no
\* block of the ancestry contains tx.
C20_ConfirmationsAreDepth ==
    lastCall.op = "getConfirmations" =>
        /\ Holders = {} => lastCall.result = 0
        /\ \A b \in Holders : lastCall.result = lastCall.block.number - b.number + 1

\* The transaction of a block two below the head was asked for
C20_Witness ==
    /\ lastCall.op = "getConfirmations"
    /\ \E b \in Holders : b.number = lastCall.block.number - 2
    /\ lastCall.result = 3

\* The hashes of the chain a hash lies on, from the hash down to block 0
ChainBelow(hash) ==
    {g \in BlockHashes : g.height <= hash.height /\ (g.chain = hash.chain \/ g.height = 0)}

\* The cache links the block of hash g to the head: it holds every block of
\* the head's chain from g's height up to the head
LinkedTo(g, head) ==
    /\ g \in ChainBelow(head)
    /\ \A k \in ChainBelow(head) : k.height >= g.height => Block(k) \in blocks

\* C21: for a transaction of a cached block b on the ancestry of head h,
\* getConfirmations(h.hash, tx) is h.number - b.number + 1; for a
\* transaction that no cached ancestor holds, pruned blocks included, it is 0.
C21_ConfirmationsOfCachedAncestors ==
    lastCall.op = "getConfirmations" =>
        LET h == lastCall.block.hash
            linked == {g \in BlockHashes : txOf(g) = lastCall.txHash /\ LinkedTo(g, h)}
        IN  /\ \A g \in linked : lastCall.result = h.height - g.height + 1
            /\ linked = {} => lastCall.result = 0

\* The transaction of an accepted block that has since been pruned from
\* under the head was asked for
C21_Witness ==
    /\ lastCall.op = "getConfirmations"
    /\ lastCall.result = 0
    /\ \E b \in addedBlocks \ blocks :
          /\ lastCall.txHash \in b.transactions
          /\ b.hash \in ChainBelow(lastCall.block.hash)

\* C22 as stated: minHeight is min(initialHeight, maxHeight - maxDepth),
\* initialHeight being the number of the first block added.
C22_MinHeightIsLower ==
    lastCall.op = "minHeight" =>
        /\ lastCall.result <= initialHeight
        /\ lastCall.result <= maxHeight(blocks) - maxDepth
        /\ lastCall.result \in {initialHeight, maxHeight(blocks) - maxDepth}

\* C22: minHeight is max(initialHeight, maxHeight - maxDepth),
\* initialHeight being the number of the first block added.
C22_MinHeightIsHigher ==
    lastCall.op = "minHeight" =>
        /\ lastCall.result >= initialHeight
        /\ lastCall.result >= maxHeight(blocks) - maxDepth
        /\ lastCall.result \in {initialHeight, maxHeight(blocks) - maxDepth}

\* minHeight was read when the two heights differ by more than one, in
\* either direction
C22_Witness ==
    /\ lastCall.op = "minHeight"
    /\ \/ initialHeight > maxHeight(blocks) - maxDepth + 1
       \/ initialHeight < maxHeight(blocks) - maxDepth - 1

\* Number of the highest block accepted so far
HighestAdded == SetMax({b.number : b \in addedBlocks})

\* C23: minHeight is the height of the first block added while fewer than
\* maxDepth blocks have been added on top of it, and the height of the
\* highest added block minus maxDepth once more than maxDepth have been.
C23_MinHeightFollowsHighestBlock ==
    lastCall.op = "minHeight" =>
        /\ HighestAdded - initialHeight < maxDepth => lastCall.result = initialHeight
        /\ HighestAdded - initialHeight > maxDepth
              => lastCall.result = HighestAdded - maxDepth

\* A chain was added upwards from block 1 until more than maxDepth blocks
\* lay on top of it, and minHeight has left the initial height
C23_Witness ==
    /\ lastCall.op = "minHeight"
    /\ initialHeight = 1
    /\ addedBlocks = {b \in generateBlocks :
                         b.hash.chain = "main" /\ b.number \in 1..(maxDepth + 2)}
    /\ lastCall.result = 2

(***************************************************************************)
(* BlockProcessor: on each head hash the provider delivers it fills the    *)
(* BlockCache with the new head's blocks and emits NEW_HEAD.               *)
(***************************************************************************)
\* The blocks to fetch for a new head, oldest first: from the head back to
\* a block whose parent is cached, or to the block maxDepth below the head
RECURSIVE blocksToAdd(_, _, _)
blocksToAdd(bs, hash, lowest) ==
    IF hasBlock(bs, hash) THEN <<>>
    ELSE IF hash.height = 0 \/ hash.height <= lowest \/ hasBlock(bs, parentOf(hash))
         THEN <<Block(hash)>>
         ELSE Append(blocksToAdd(bs, parentOf(hash), lowest), Block(hash))

\* addBlock on a cache [blocks, initialHeight, accepted]
addBlock(cache, depth, b) ==
    IF cache.accepted /\ canAddBlock(cache.blocks, cache.initialHeight, depth, b)
    THEN [blocks |-> prune(cache.blocks \cup {b}, depth),
          initialHeight |-> IF isEmpty(cache.blocks) THEN b.number
                            ELSE cache.initialHeight,
          accepted |-> TRUE]
    ELSE [cache EXCEPT !.accepted = FALSE]

RECURSIVE addBlocks(_, _, _)
addBlocks(cache, depth, toAdd) ==
    IF toAdd = <<>> THEN cache
    ELSE addBlocks(addBlock(cache, depth, Head(toAdd)), depth, Tail(toAdd))

InitProcessor ==
    /\ processorHead = NoHash
    /\ received = <<>>
    /\ emitted = <<>>
    /\ fatal = FALSE

IdleProcessor == InitProcessor

\* One delivered head hash: step 1 fills the cache, step 2 emits NEW_HEAD
ProcessHead(newHead) ==
    /\ ~fatal
    /\ Len(received) < MaxHeads
    /\ newHead # processorHead
    /\ received' = Append(received, newHead)
    /\ LET toAdd == blocksToAdd(blocks, newHead, newHead.height - maxDepth)
           cache == addBlocks([blocks |-> blocks, initialHeight |-> initialHeight,
                               accepted |-> TRUE], maxDepth, toAdd)
       IN  IF cache.accepted
           THEN /\ blocks' = cache.blocks
                /\ initialHeight' = cache.initialHeight
                /\ addedBlocks' = addedBlocks \cup {toAdd[i] : i \in 1..Len(toAdd)}
                /\ processorHead' = newHead
                /\ emitted' = Append(emitted, [prevHead |-> processorHead, newHead |-> newHead])
                /\ UNCHANGED fatal
           ELSE /\ fatal' = TRUE
                /\ UNCHANGED <<blocks, initialHeight, addedBlocks, processorHead, emitted>>
    /\ UNCHANGED <<maxDepth, lastCall>>
    /\ UNCHANGED <<watcherVars, responderVars, logVars, storeVars, constructorVars,
                   actionVars, dedicatedVars, minerVars, managerVars,
                   headEventVars, broadcastVars, reduceVars, startVars,
                   trackerVars, cleanupVars>>

NextProcessor == \E newHead \in BlockHashes : ProcessHead(newHead)

\* The highest block that lies on the chains of both hashes
CommonAncestor(g, h) ==
    CHOOSE a \in ChainBelow(g) \cap ChainBelow(h) :
        \A c \in ChainBelow(g) \cap ChainBelow(h) : c.height <= a.height

\* The heads whose processing ended with an emission
ProcessedHeads == IF fatal THEN SubSeq(received, 1, Len(received) - 1) ELSE received

\* C24: BlockProcessor emits NEW_HEAD(prevHead, newHead) exactly once for
\* each processed head, in the order the heads were received, and when it
\* is emitted the cache holds prevHead, newHead and every block on the
\* path from their common ancestor to newHead.
C24_NewHeadOnPopulatedCache ==
    /\ Len(emitted) = Len(ProcessedHeads)
    /\ \A i \in 1..Len(emitted) :
          /\ emitted[i].newHead = ProcessedHeads[i]
          /\ emitted[i].prevHead = IF i = 1 THEN NoHash ELSE ProcessedHeads[i - 1]
    /\ (emitted # <<>> /\ emitted[Len(emitted)].prevHead # NoHash) =>
          LET e == emitted[Len(emitted)]
              ancestor == CommonAncestor(e.prevHead, e.newHead)
          IN  /\ hasBlock(blocks, e.prevHead)
              /\ hasBlock(blocks, e.newHead)
              /\ \A k \in ChainBelow(e.newHead) :
                    k.height >= ancestor.height => hasBlock(blocks, k)

(***************************************************************************)
(* new Watcher(responder, blockProcessor, store, confirmationsBeforeResponse,*)
(* confirmationsBeforeRemoval) on its own                                  *)
(***************************************************************************)
InitConstructor ==
    /\ constructorArgs \in [confirmationsBeforeResponse : 0..MaxConstructorArg,
                            confirmationsBeforeRemoval : 0..MaxConstructorArg]
    /\ constructorOutcome = "none"

IdleConstructor ==
    /\ constructorArgs = [confirmationsBeforeResponse |-> 1,
                          confirmationsBeforeRemoval |-> 1]
    /\ constructorOutcome = "none"

Construct ==
    /\ constructorOutcome = "none"
    /\ constructorOutcome' =
          IF constructorAccepts(constructorArgs.confirmationsBeforeResponse,
                                constructorArgs.confirmationsBeforeRemoval)
          THEN "constructed" ELSE "ArgumentError"
    /\ UNCHANGED constructorArgs
    /\ UNCHANGED <<watcherVars, responderVars, logVars, storeVars, cacheVars,
                   processorVars, actionVars, dedicatedVars, minerVars,
                   managerVars, headEventVars, broadcastVars, reduceVars,
                   startVars, trackerVars, cleanupVars>>

\* C25: constructing a Watcher with confirmationsBeforeResponse above
\* confirmationsBeforeRemoval fails with ArgumentError; with
\* confirmationsBeforeResponse <= confirmationsBeforeRemoval, equality
\* included, it succeeds.
C25_ConstructorCheck ==
    constructorOutcome # "none" =>
        IF constructorArgs.confirmationsBeforeResponse
               > constructorArgs.confirmationsBeforeRemoval
        THEN constructorOutcome = "ArgumentError"
        ELSE constructorOutcome = "constructed"

\* A Watcher was constructed with equal confirmation counts
C25_Witness ==
    /\ constructorOutcome = "constructed"
    /\ constructorArgs.confirmationsBeforeResponse
           = constructorArgs.confirmationsBeforeRemoval

(***************************************************************************)
(* The two actions of Watcher.getActions as handleNewStateEvent runs them  *)
(* for the appointments of one head event, with the failures they can meet.*)
(***************************************************************************)
WatchedIds == {"a1", "a2"}
ActionFaults == {"none", "respondThrows", "removeByIdFails"}

\* The respond action: store.getById(id) is outside the try block; respond
\* and the logging around it are inside; the catch block logs through the
\* appointment again
respondAction(inStore, fault) ==
    IF ~inStore THEN "threw"
    ELSE IF fault = "respondThrows" THEN "logged"
    ELSE "responded"

\* The removal action: await this.store.removeById(id), no try block
removeAction(fault) ==
    IF fault = "removeByIdFails" THEN "threw" ELSE "removed"

\* The actions fired for one appointment, in the order of getActions
FiredLists == {<<>>, <<"respond">>, <<"removeById">>, <<"respond", "removeById">>}
firedFor(id, ops) == [i \in 1..Len(ops) |-> [id |-> id, op |-> ops[i]]]

InitActions ==
    /\ \E ops1 \in FiredLists, ops2 \in FiredLists :
          toRun = firedFor("a1", ops1) \o firedFor("a2", ops2)
    /\ ran = <<>>
    /\ storedIds \in SUBSET WatchedIds
    /\ aborted = FALSE

IdleActions ==
    /\ toRun = <<>>
    /\ ran = <<>>
    /\ storedIds = {}
    /\ aborted = FALSE

\* handleNewStateEvent awaits the next fired action; an exception that
\* leaves the action ends the handling of this head event
RunAction(fault) ==
    /\ toRun # <<>>
    /\ LET next == Head(toRun)
           outcome == IF next.op = "respond"
                      THEN respondAction(next.id \in storedIds, fault)
                      ELSE removeAction(fault)
       IN  /\ ran' = Append(ran, [id |-> next.id, op |-> next.op, outcome |-> outcome])
           /\ storedIds' = IF outcome = "removed" THEN storedIds \ {next.id}
                           ELSE storedIds
           /\ toRun' = IF outcome = "threw" THEN <<>> ELSE Tail(toRun)
           /\ aborted' = (outcome = "threw")
    /\ UNCHANGED <<watcherVars, responderVars, logVars, storeVars, cacheVars,
                   processorVars, constructorVars, dedicatedVars, minerVars,
                   managerVars, headEventVars, broadcastVars, reduceVars,
                   startVars, trackerVars, cleanupVars>>

NextActions == \E fault \in ActionFaults : RunAction(fault)

\* C26: a failure while handling one appointment on a head event (respond
\* throwing, the appointment missing from the store at the lookup,
\* removeById failing) never leaves the Watcher's action, and the actions
\* of the other appointments still run on that head.
C26_ActionFailuresContained ==
    /\ \A i \in 1..Len(ran) : ran[i].outcome # "threw"
    /\ ~aborted

(***************************************************************************)
(* EthereumDedicatedResponder.startResponse: the attempts of one response  *)
(* flow, each made by an EthereumTransactionMiner.                         *)
(***************************************************************************)
\* Prices provider.getGasPrice() returns
InitialPrices == {0, 1, 3}
AttemptOutcomes ==
    {"confirmed", "BlockThresholdReachedError", "NoNewBlockError", "ReorgError"}

\* A gas policy that leaves the price as it is
getIncreasedGasPriceSame(previousPrice) == previousPrice

\* DoublingGasPolicy.getIncreasedGasPrice
getIncreasedGasPrice(previousPrice) == previousPrice * 2

InitDedicated ==
    /\ gasPrice \in InitialPrices
    /\ maxAttempts \in 1..MaxAttempts
    /\ attempts = <<>>
    /\ responseState = "Started"

IdleDedicated ==
    /\ gasPrice = 1
    /\ maxAttempts = 1
    /\ attempts = <<>>
    /\ responseState = "Started"

\* One turn of the while loop: txMiner.sendTransaction() with the current
\* gas price resolves or rejects; the catch block; the end of the loop
Attempt(outcome) ==
    /\ responseState = "Started"
    /\ Len(attempts) < maxAttempts
    /\ attempts' = Append(attempts, [gasPrice |-> gasPrice, outcome |-> outcome])
    /\ gasPrice' = IF outcome = "BlockThresholdReachedError"
                   THEN getIncreasedGasPrice(gasPrice) ELSE gasPrice
    /\ responseState' = IF outcome = "confirmed" THEN "Success"
                        ELSE IF Len(attempts) + 1 = maxAttempts THEN "Failed"
                        ELSE "Started"
    /\ UNCHANGED maxAttempts
    /\ UNCHANGED <<watcherVars, responderVars, logVars, storeVars, cacheVars,
                   processorVars, constructorVars, actionVars, minerVars,
                   managerVars, headEventVars, broadcastVars, reduceVars,
                   startVars, trackerVars, cleanupVars>>

NextDedicated == \E outcome \in AttemptOutcomes : Attempt(outcome)

\* Attempts are made until one succeeds or maxAttempts have been made
AttemptsRepeated ==
    /\ \A i \in 1..(Len(attempts) - 1) : attempts[i].outcome # "confirmed"
    /\ Len(attempts) <= maxAttempts
    /\ responseState = "Success" <=>
          (attempts # <<>> /\ attempts[Len(attempts)].outcome = "confirmed")
    /\ responseState = "Failed" <=>
          /\ Len(attempts) = maxAttempts
          /\ attempts[Len(attempts)].outcome # "confirmed"

secondRaceWithThreshold == {"enoughConfirmations", "blockThreshold", "noNewBlock"}

\* The promises of the first and of the second Promise.race
firstRace == {"firstConfirmation", "blockThreshold", "noNewBlock"}
secondRace == {"enoughConfirmations", "noNewBlock"}

\* waitForConfirmations, rejectAfterBlocks, rejectIfAnyBlockTimesOut: whether
\* the promise is settled once the chain shows conf confirmations, nBlocks
\* new blocks, and timeout says a block timed out
settled(promise, conf, nBlocks, timeout, required, threshold) ==
    CASE promise = "firstConfirmation" -> conf >= 1
      [] promise = "enoughConfirmations" -> conf >= required
      [] promise = "blockThreshold" -> nBlocks >= threshold
      [] promise = "noNewBlock" -> timeout

errorOf(promise) ==
    IF promise = "blockThreshold" THEN "BlockThresholdReachedError"
    ELSE "NoNewBlockError"

\* Where sendTransaction can stand after an event, waiting in the second
\* race: promises settled by the same event can win in either order
afterSecondRace(conf, nBlocks, timeout, required, threshold) ==
    LET winners == {p \in secondRace :
                       settled(p, conf, nBlocks, timeout, required, threshold)}
    IN  IF winners = {} THEN {[state |-> "waitEnough", error |-> "none"]}
        ELSE {IF p = "enoughConfirmations"
              THEN [state |-> "resolved", error |-> "none"]
              ELSE [state |-> "rejected", error |-> errorOf(p)] : p \in winners}

\* The same, waiting in the first race
afterFirstRace(conf, nBlocks, timeout, required, threshold) ==
    LET winners == {p \in firstRace :
                       settled(p, conf, nBlocks, timeout, required, threshold)}
    IN  IF winners = {} THEN {[state |-> "waitFirst", error |-> "none"]}
        ELSE UNION {IF p = "firstConfirmation"
                    THEN afterSecondRace(conf, nBlocks, timeout, required, threshold)
                    ELSE {[state |-> "rejected", error |-> errorOf(p)]} : p \in winners}

afterEvent(state, conf, nBlocks, timeout, required, threshold) ==
    IF state = "waitFirst"
    THEN afterFirstRace(conf, nBlocks, timeout, required, threshold)
    ELSE IF state = "waitEnough"
    THEN afterSecondRace(conf, nBlocks, timeout, required, threshold)
    ELSE {[state |-> state, error |-> minerError]}

InitMiner ==
    /\ confirmationsRequired \in 1..MaxConfirmationsRequired
    /\ blocksThresholdForStuckTransaction \in 1..MaxBlocksThreshold
    /\ minerState = "sending"
    /\ minerError = "none"
    /\ blocksSinceSent = 0
    /\ confirmations = 0
    /\ firstSeenAt = 0
    /\ timedOut = FALSE

IdleMiner ==
    /\ confirmationsRequired = 1
    /\ blocksThresholdForStuckTransaction = 1
    /\ minerState = "sending"
    /\ minerError = "none"
    /\ blocksSinceSent = 0
    /\ confirmations = 0
    /\ firstSeenAt = 0
    /\ timedOut = FALSE

\* signer.sendTransaction and provider.getBlockNumber have answered
Sent ==
    /\ minerState = "sending"
    /\ minerState' = "waitFirst"
    /\ UNCHANGED <<confirmationsRequired, blocksThresholdForStuckTransaction,
                   minerError, blocksSinceSent, confirmations, firstSeenAt, timedOut>>
    /\ UNCHANGED <<watcherVars, responderVars, logVars, storeVars, cacheVars,
                   processorVars, constructorVars, actionVars, dedicatedVars,
                   managerVars, headEventVars, broadcastVars, reduceVars,
                   startVars, trackerVars, cleanupVars>>

\* The provider receives a new block; hasTx: it holds the transaction
MinerNewBlock(hasTx) ==
    /\ minerState \in {"waitFirst", "waitEnough"}
    /\ blocksSinceSent < MaxMinerBlocks
    /\ LET nBlocks == blocksSinceSent + 1
           conf == IF confirmations > 0 THEN confirmations + 1
                   ELSE IF hasTx THEN 1 ELSE 0
       IN  /\ blocksSinceSent' = nBlocks
           /\ confirmations' = conf
           /\ firstSeenAt' = IF firstSeenAt = 0 /\ conf > 0 THEN nBlocks ELSE firstSeenAt
           /\ \E r \in afterEvent(minerState, conf, nBlocks, FALSE, confirmationsRequired,
                                  blocksThresholdForStuckTransaction) :
                 /\ minerState' = r.state
                 /\ minerError' = r.error
    /\ UNCHANGED <<confirmationsRequired, blocksThresholdForStuckTransaction, timedOut>>
    /\ UNCHANGED <<watcherVars, responderVars, logVars, storeVars, cacheVars,
                   processorVars, constructorVars, actionVars, dedicatedVars,
                   managerVars, headEventVars, broadcastVars, reduceVars,
                   startVars, trackerVars, cleanupVars>>

\* No new block has arrived for newBlockTimeout milliseconds
NoNewBlock ==
    /\ minerState \in {"waitFirst", "waitEnough"}
    /\ timedOut' = TRUE
    /\ \E r \in afterEvent(minerState, confirmations, blocksSinceSent, TRUE,
                           confirmationsRequired, blocksThresholdForStuckTransaction) :
          /\ minerState' = r.state
          /\ minerError' = r.error
    /\ UNCHANGED <<confirmationsRequired, blocksThresholdForStuckTransaction,
                   blocksSinceSent, confirmations, firstSeenAt>>
    /\ UNCHANGED <<watcherVars, responderVars, logVars, storeVars, cacheVars,
                   processorVars, constructorVars, actionVars, dedicatedVars,
                   managerVars, headEventVars, broadcastVars, reduceVars,
                   startVars, trackerVars, cleanupVars>>

NextMiner ==
    \/ Sent
    \/ \E hasTx \in BOOLEAN : MinerNewBlock(hasTx)
    \/ NoNewBlock

RespondedAppointments == {"a1", "a2", "a3"}

\* The signer the manager was constructed with
managerSigner == "signer"

\* A response flow that has started and has neither succeeded nor given up
activeFlow(state) == state \in {"started", "nonceRead", "sent"}

InitManager ==
    /\ flowState = [a \in RespondedAppointments |-> "none"]
    /\ flowSigner = [a \in RespondedAppointments |-> "none"]
    /\ flowNonce = [a \in RespondedAppointments |-> -1]
    /\ transactionCount = 0

IdleManager == InitManager

\* respond(appointment): a new responder on this.signer, startResponse takes
\* the lock of that new responder
ManagerRespond(a) ==
    /\ flowState[a] = "none"
    /\ flowState' = [flowState EXCEPT ![a] = "started"]
    /\ flowSigner' = [flowSigner EXCEPT ![a] = managerSigner]
    /\ UNCHANGED <<flowNonce, transactionCount>>
    /\ UNCHANGED <<watcherVars, responderVars, logVars, storeVars, cacheVars,
                   processorVars, constructorVars, actionVars, dedicatedVars,
                   minerVars, headEventVars, broadcastVars, reduceVars,
                   startVars, trackerVars, cleanupVars>>

\* startResponse: provider.getTransactionCount(signerAddress) has answered
ReadNonce(a) ==
    /\ flowState[a] = "started"
    /\ flowState' = [flowState EXCEPT ![a] = "nonceRead"]
    /\ flowNonce' = [flowNonce EXCEPT ![a] = transactionCount]
    /\ UNCHANGED <<flowSigner, transactionCount>>
    /\ UNCHANGED <<watcherVars, responderVars, logVars, storeVars, cacheVars,
                   processorVars, constructorVars, actionVars, dedicatedVars,
                   minerVars, headEventVars, broadcastVars, reduceVars,
                   startVars, trackerVars, cleanupVars>>

\* startResponse: the transaction miner has sent the transaction
SendResponse(a) ==
    /\ flowState[a] = "nonceRead"
    /\ flowState' = [flowState EXCEPT ![a] = "sent"]
    /\ UNCHANGED <<flowSigner, flowNonce, transactionCount>>
    /\ UNCHANGED <<watcherVars, responderVars, logVars, storeVars, cacheVars,
                   processorVars, constructorVars, actionVars, dedicatedVars,
                   minerVars, headEventVars, broadcastVars, reduceVars,
                   startVars, trackerVars, cleanupVars>>

\* The transaction is mined and confirmed: the chain takes only the
\* transaction whose nonce is the signer's transaction count
ConfirmResponse(a) ==
    /\ flowState[a] = "sent"
    /\ flowNonce[a] = transactionCount
    /\ flowState' = [flowState EXCEPT ![a] = "confirmed"]
    /\ transactionCount' = transactionCount + 1
    /\ UNCHANGED <<flowSigner, flowNonce>>
    /\ UNCHANGED <<watcherVars, responderVars, logVars, storeVars, cacheVars,
                   processorVars, constructorVars, actionVars, dedicatedVars,
                   minerVars, headEventVars, broadcastVars, reduceVars,
                   startVars, trackerVars, cleanupVars>>

\* Every attempt was rejected: the responder gives up
FailResponse(a) ==
    /\ flowState[a] = "sent"
    /\ flowState' = [flowState EXCEPT ![a] = "failed"]
    /\ UNCHANGED <<flowSigner, flowNonce, transactionCount>>
    /\ UNCHANGED <<watcherVars, responderVars, logVars, storeVars, cacheVars,
                   processorVars, constructorVars, actionVars, dedicatedVars,
                   minerVars, headEventVars, broadcastVars, reduceVars,
                   startVars, trackerVars, cleanupVars>>

NextManager ==
    \E a \in RespondedAppointments :
        \/ ManagerRespond(a)
        \/ ReadNonce(a)
        \/ SendResponse(a)
        \/ ConfirmResponse(a)
        \/ FailResponse(a)

\* C29: a signer is used by at most one responder with an active response
\* flow, so no two responses in flight for different appointments are sent
\* with the same nonce.
C29_SignerExclusive ==
    \A a, b \in RespondedAppointments :
        (a # b /\ activeFlow(flowState[a]) /\ activeFlow(flowState[b])) =>
            /\ flowSigner[a] # flowSigner[b]
            /\ (flowState[a] = "sent" /\ flowState[b] = "sent") =>
                   flowNonce[a] # flowNonce[b]

(***************************************************************************)
(* MultiResponder.handleNewStateEvent: the handler of a new head, given    *)
(* the anchor state of the new head and the gas queue as it stands.        *)
(***************************************************************************)
\* The TxIds that are Pending in the anchor state and not in the gas queue
pendingNotQueued(state, queued) ==
    {id \in TxIds : state[id] = "Pending" /\ id \notin queued}

InitHeadEvent ==
    /\ responderState \in [TxIds -> {"absent", "Pending", "Mined"}]
    /\ queuedIds \in SUBSET TxIds
    /\ ancestryLength \in 0..MaxAncestry
    /\ missingTransactions = {}
    /\ rebroadcast = {}
    /\ handled = "none"

IdleHeadEvent ==
    /\ responderState = [id \in TxIds |-> "absent"]
    /\ queuedIds = {}
    /\ ancestryLength = 0
    /\ missingTransactions = {}
    /\ rebroadcast = {}
    /\ handled = "none"

\* handleNewStateEvent(prevHead, prevState, head, state): the missing
\* transactions are collected into a local list and nothing is done with it;
\* the loop over the ancestry then reads this.minedTransactions, a field
\* that is never declared, so its first turn throws a TypeError
HandleNewStateEvent ==
    /\ handled = "none"
    /\ missingTransactions' = pendingNotQueued(responderState, queuedIds)
    /\ handled' = IF ancestryLength > 0 THEN "TypeError" ELSE "returned"
    /\ UNCHANGED <<responderState, queuedIds, ancestryLength, rebroadcast>>
    /\ UNCHANGED <<watcherVars, responderVars, logVars, storeVars, cacheVars,
                   processorVars, constructorVars, actionVars, dedicatedVars,
                   minerVars, managerVars, broadcastVars, reduceVars,
                   startVars, trackerVars, cleanupVars>>

NextHeadEvent == HandleNewStateEvent

\* C30: after handleNewStateEvent every TxId that is Pending at the new head
\* and was not in the gas queue is in the queue and has been broadcast again.
C30_MissingRequeued ==
    handled # "none" =>
        \A id \in TxIds :
            (responderState[id] = "Pending" /\ id \in missingTransactions) =>
                (id \in queuedIds /\ id \in rebroadcast)

(***************************************************************************)
(* MultiResponder.broadcast of the replaced transactions of one queue      *)
(* update, and the head events that follow while none of them is mined.    *)
(***************************************************************************)
\* The items whose signer.sendTransaction call was made and succeeded: each
\* broadcast call catches its own error
broadcastAll(items, fails) == items \ fails

InitBroadcast ==
    /\ replacedSet \in (SUBSET TxIds) \ {{}}
    /\ sendFails \in SUBSET replacedSet
    /\ committed = FALSE
    /\ tracked = {}
    /\ delivered = [id \in TxIds |-> 0]
    /\ loggedFailures = {}
    /\ ticks = 0

IdleBroadcast ==
    /\ replacedSet = {"A"}
    /\ sendFails = {}
    /\ committed = FALSE
    /\ tracked = {}
    /\ delivered = [id \in TxIds |-> 0]
    /\ loggedFailures = {}
    /\ ticks = 0

\* this.queue = replacedQueue; await Promise.all(replaced.map(this.broadcast))
BroadcastReplaced ==
    /\ ~committed
    /\ committed' = TRUE
    /\ tracked' = replacedSet
    /\ delivered' = [id \in TxIds |->
                        IF id \in broadcastAll(replacedSet, sendFails) THEN 1 ELSE 0]
    /\ loggedFailures' = sendFails
    /\ UNCHANGED <<replacedSet, sendFails, ticks>>
    /\ UNCHANGED <<watcherVars, responderVars, logVars, storeVars, cacheVars,
                   processorVars, constructorVars, actionVars, dedicatedVars,
                   minerVars, managerVars, headEventVars, reduceVars,
                   startVars, trackerVars, cleanupVars>>

\* A new head whose blocks hold none of the transactions: checkTxs finds no
\* callback to invoke and handleNewStateEvent neither queues nor broadcasts
HeadTick ==
    /\ committed
    /\ ticks < MaxTicks
    /\ ticks' = ticks + 1
    /\ UNCHANGED <<replacedSet, sendFails, committed, tracked, delivered,
                   loggedFailures>>
    /\ UNCHANGED <<watcherVars, responderVars, logVars, storeVars, cacheVars,
                   processorVars, constructorVars, actionVars, dedicatedVars,
                   minerVars, managerVars, headEventVars, reduceVars,
                   startVars, trackerVars, cleanupVars>>

NextBroadcast == BroadcastReplaced \/ HeadTick

\* C31: when sendTransaction fails for an item, the failure is logged, the
\* queue update stays committed, the other items of the replacement set are
\* broadcast, and once a later head event has been handled the failed item,
\* still unmined in the queue, has been broadcast again.
C31_FailedBroadcastRetried ==
    committed =>
        /\ loggedFailures = sendFails
        /\ \A id \in replacedSet \ sendFails : delivered[id] >= 1
        /\ ticks >= 1 => \A id \in sendFails : delivered[id] >= 1

\* The part of C31 that holds: logged, committed, the others broadcast
C31_FailureContained ==
    (tracked # {} \/ loggedFailures # {}) =>
        /\ committed
        /\ loggedFailures = sendFails
        /\ tracked = replacedSet
        /\ \A id \in replacedSet \ sendFails : delivered[id] = 1

(***************************************************************************)
(* MultiResponder.reduce and the anchor state it gives along the heads.    *)
(***************************************************************************)
\* TxIds the responder's anchor state may hold
AnchorIds == {"A", "B"}

\* A transaction of a block: hasTo FALSE is a contract creation; id stands
\* for (chainId, data, to, value, gasLimit)
ChainTxs == [hasTo : BOOLEAN, id : AnchorIds, nonce : 0..MaxTxNonce]
ChainBlocks == SeqsUpTo(ChainTxs, MaxBlockTxs)

Pending(id) == [state |-> "Pending", identifier |-> id, blockNumber |-> -1, nonce |-> -1]
Mined(id, blockNumber, nonce) ==
    [state |-> "Mined", identifier |-> id, blockNumber |-> blockNumber, nonce |-> nonce]

\* Mutant: the last matching transaction of the block is taken
reduceLastMatch(prevState, transactions, number) ==
    [key \in DOMAIN prevState |->
        LET found == {i \in 1..Len(transactions) :
                         transactions[i].hasTo /\ transactions[i].id = key}
        IN  IF found = {} THEN Pending(key)
            ELSE Mined(key, number,
                       transactions[CHOOSE i \in found : \A j \in found : j <= i].nonce)]

\* reduce(prevState, block): for each key of prevState the first transaction
\* of the block with a to field and the key's identifier, if any
responderReduce(prevState, transactions, number) ==
    [key \in DOMAIN prevState |->
        LET found == {i \in 1..Len(transactions) :
                         transactions[i].hasTo /\ transactions[i].id = key}
        IN  IF found = {} THEN Pending(key)
            ELSE Mined(key, number,
                       transactions[CHOOSE i \in found : \A j \in found : i <= j].nonce)]

InitReduce ==
    /\ \E keys \in SUBSET AnchorIds : responderAnchor = [key \in keys |-> Pending(key)]
    /\ headBlocks = <<>>

IdleReduce ==
    /\ responderAnchor = [key \in {} |-> Pending(key)]
    /\ headBlocks = <<>>

\* A new head on top of the previous one: the state is reduced with it
ExtendHead(transactions) ==
    /\ Len(headBlocks) < MaxReduceHeads
    /\ headBlocks' = Append(headBlocks, transactions)
    /\ responderAnchor' = responderReduce(responderAnchor, transactions, Len(headBlocks) + 1)
    /\ UNCHANGED <<watcherVars, responderVars, logVars, storeVars, cacheVars,
                   processorVars, constructorVars, actionVars, dedicatedVars,
                   minerVars, managerVars, headEventVars, broadcastVars,
                   startVars, trackerVars, cleanupVars>>

\* A new head that replaces the previous one: the state of their common
\* ancestor, which has the same keys, is reduced with it
ReorgHead(transactions) ==
    /\ headBlocks # <<>>
    /\ transactions # headBlocks[Len(headBlocks)]
    /\ headBlocks' = [headBlocks EXCEPT ![Len(headBlocks)] = transactions]
    /\ responderAnchor' = responderReduce(responderAnchor, transactions, Len(headBlocks))
    /\ UNCHANGED <<watcherVars, responderVars, logVars, storeVars, cacheVars,
                   processorVars, constructorVars, actionVars, dedicatedVars,
                   minerVars, managerVars, headEventVars, broadcastVars,
                   startVars, trackerVars, cleanupVars>>

NextReduce ==
    \E transactions \in ChainBlocks :
        \/ ExtendHead(transactions)
        \/ ReorgHead(transactions)

\* The transactions of the head block that match key, by position
MatchesOf(key, transactions) ==
    {i \in 1..Len(transactions) : transactions[i].hasTo /\ transactions[i].id = key}

\* C34: reduce returns a map with exactly the keys of prevState; a key maps
\* to Mined with the block's number and the nonce of the first transaction
\* of the block that has a to field and the key's TxId, and to Pending when
\* the block has no such transaction; contract creations never match.
C34_ReduceByHeadBlock ==
    [][LET transactions == headBlocks'[Len(headBlocks')]
       IN  /\ DOMAIN responderAnchor' = DOMAIN responderAnchor
           /\ \A key \in DOMAIN responderAnchor :
                 LET found == MatchesOf(key, transactions)
                 IN  /\ found = {} <=> responderAnchor'[key] = Pending(key)
                     /\ found # {} =>
                           \E i \in found :
                               /\ \A j \in 1..(i - 1) : j \notin found
                               /\ responderAnchor'[key] =
                                     Mined(key, Len(headBlocks'), transactions[i].nonce)
      ]_vars

\* The head block holds two transactions of A with different nonces: A is
\* Mined with the nonce of the first
C34_Witness ==
    /\ "A" \in DOMAIN responderAnchor
    /\ headBlocks # <<>>
    /\ LET transactions == headBlocks[Len(headBlocks)]
       IN  /\ Len(transactions) = 2
           /\ transactions[1].hasTo /\ transactions[1].id = "A"
           /\ transactions[2].hasTo /\ transactions[2].id = "A"
           /\ transactions[1].nonce # transactions[2].nonce
           /\ responderAnchor["A"] = Mined("A", Len(headBlocks), transactions[1].nonce)

\* C35: a TxId that is Mined at a head stays Mined, with the same
\* blockNumber and nonce, at a later head whose ancestry holds that block.
C35_MinedStaysMined ==
    [][Len(headBlocks') = Len(headBlocks) + 1 =>
          \A key \in DOMAIN responderAnchor :
              responderAnchor[key].state = "Mined" =>
                  responderAnchor'[key] = responderAnchor[key]
      ]_vars

(***************************************************************************)
(* EthereumDedicatedResponder.startResponse under withLock: the provider   *)
(* calls made before the loop, the attempts, and the events emitted.       *)
(***************************************************************************)
ProviderCalls == <<"getAddress", "getTransactionCount", "getInitialPrice">>

\* What follows a provider call that answered
afterProviderCall(call) ==
    IF call = "getAddress" THEN "getTransactionCount"
    ELSE IF call = "getTransactionCount" THEN "getInitialPrice"
    ELSE "attempts"

InitStart ==
    /\ startPc = "getAddress"
    /\ startMaxAttempts \in 1..MaxAttempts
    /\ attemptsDone = <<>>
    /\ responseFlowState = "Started"
    /\ terminalEvents = <<>>
    /\ locked = TRUE

IdleStart ==
    /\ startPc = "getAddress"
    /\ startMaxAttempts = 1
    /\ attemptsDone = <<>>
    /\ responseFlowState = "Started"
    /\ terminalEvents = <<>>
    /\ locked = TRUE

\* An awaited provider call answers, or fails or times out: the rejection
\* is outside every try block of fn, so fn rejects, withLock's finally
\* releases the lock and the promise startResponse dropped is rejected
ProviderCall(answered) ==
    /\ startPc \in {ProviderCalls[i] : i \in 1..Len(ProviderCalls)}
    /\ startPc' = IF answered THEN afterProviderCall(startPc) ELSE "rejected"
    /\ locked' = answered
    /\ UNCHANGED <<startMaxAttempts, attemptsDone, responseFlowState, terminalEvents>>
    /\ UNCHANGED <<watcherVars, responderVars, logVars, storeVars, cacheVars,
                   processorVars, constructorVars, actionVars, dedicatedVars,
                   minerVars, managerVars, headEventVars, broadcastVars,
                   reduceVars, trackerVars, cleanupVars>>

\* One turn of the while loop, and what follows the loop when it was the
\* last; wasSent: the miner emitted "sent" before it settled
StartAttempt(outcome, wasSent) ==
    /\ startPc = "attempts"
    /\ Len(attemptsDone) < startMaxAttempts
    /\ outcome = "confirmed" => wasSent
    /\ attemptsDone' = Append(attemptsDone, [outcome |-> outcome, sent |-> wasSent])
    /\ IF outcome = "confirmed"
       THEN /\ responseFlowState' = "Success"
            /\ terminalEvents' = Append(terminalEvents, "ResponseConfirmed")
            /\ startPc' = "returned"
            /\ locked' = FALSE
       ELSE IF Len(attemptsDone) + 1 = startMaxAttempts
       THEN /\ responseFlowState' = "Failed"
            /\ terminalEvents' = Append(terminalEvents, "ResponseFailed")
            /\ startPc' = "returned"
            /\ locked' = FALSE
       ELSE /\ responseFlowState' = IF wasSent THEN "ResponseSent" ELSE responseFlowState
            /\ UNCHANGED <<terminalEvents, startPc, locked>>
    /\ UNCHANGED startMaxAttempts
    /\ UNCHANGED <<watcherVars, responderVars, logVars, storeVars, cacheVars,
                   processorVars, constructorVars, actionVars, dedicatedVars,
                   minerVars, managerVars, headEventVars, broadcastVars,
                   reduceVars, trackerVars, cleanupVars>>

NextStart ==
    \/ \E answered \in BOOLEAN : ProviderCall(answered)
    \/ \E outcome \in AttemptOutcomes, wasSent \in BOOLEAN : StartAttempt(outcome, wasSent)

\* C36: a startResponse flow ends after at most maxAttempts attempts with
\* exactly one terminal event: ResponseConfirmed (state Success) when an
\* attempt was confirmed, else ResponseFailed (state Failed) after the
\* maxAttempts-th failed attempt, also when a provider call made before the
\* first attempt fails or times out.
C36_OneTerminalEvent ==
    /\ Len(attemptsDone) <= startMaxAttempts
    /\ Len(terminalEvents) <= 1
    /\ ~locked =>
          /\ Len(terminalEvents) = 1
          /\ IF \E i \in 1..Len(attemptsDone) : attemptsDone[i].outcome = "confirmed"
             THEN terminalEvents[1] = "ResponseConfirmed" /\ responseFlowState = "Success"
             ELSE terminalEvents[1] = "ResponseFailed" /\ responseFlowState = "Failed"

\* The part of C36 that holds: a flow whose provider calls all answered
C36_OneTerminalEventAfterSetup ==
    /\ Len(attemptsDone) <= startMaxAttempts
    /\ Len(terminalEvents) <= 1
    /\ startPc = "returned" =>
          /\ Len(terminalEvents) = 1
          /\ IF \E i \in 1..Len(attemptsDone) : attemptsDone[i].outcome = "confirmed"
             THEN terminalEvents[1] = "ResponseConfirmed" /\ responseFlowState = "Success"
             ELSE /\ terminalEvents[1] = "ResponseFailed"
                  /\ responseFlowState = "Failed"
                  /\ Len(attemptsDone) = startMaxAttempts

(***************************************************************************)
(* TransactionTracker.checkTxs on the heads of a chain that extends and    *)
(* reorganises, over a block cache that keeps the last blocks only.        *)
(***************************************************************************)
TrackedTxs == AnchorIds \cup {"-"}

\* getBlockStub finds the block of that height on the head's ancestry
stubCached(height, headNumber) == height >= headNumber - TrackerCacheDepth

\* The heights whose transactions the loop of checkTxs inspects: index runs
\* from blockNumber down to lastBlockNumber + 1, the stub follows parentHash
\* and, once a stub is missing, every later turn is skipped
inspectedHeights(blockNumber, last) ==
    {h \in (last + 1)..blockNumber :
        \A g \in h..blockNumber : stubCached(g, blockNumber)}

\* The callbacks invoked from height h down, each deleted before its call
RECURSIVE invokedFrom(_, _, _, _, _)
invokedFrom(chainOfHead, callbacks, h, blockNumber, last) ==
    IF h <= last \/ h < 1 THEN <<>>
    ELSE LET hit == h \in inspectedHeights(blockNumber, last)
                    /\ chainOfHead[h] \in callbacks
         IN  (IF hit THEN <<[id |-> chainOfHead[h], block |-> h]>> ELSE <<>>)
             \o invokedFrom(chainOfHead,
                            IF hit THEN callbacks \ {chainOfHead[h]} ELSE callbacks,
                            h - 1, blockNumber, last)

InitTracker ==
    /\ trackedChain = <<>>
    /\ registeredIds \in SUBSET AnchorIds
    /\ trackerCallbacks = registeredIds
    /\ trackerLastBlockNumber = 0
    /\ invokedCallbacks = <<>>

IdleTracker ==
    /\ trackedChain = <<>>
    /\ registeredIds = {}
    /\ trackerCallbacks = {}
    /\ trackerLastBlockNumber = 0
    /\ invokedCallbacks = <<>>

\* NEW_HEAD: the head moves to a block whose ancestry shares the first
\* common blocks with the previous head's; checkTxs(head.number, head.hash)
TrackerNewHead(common, newBlocks) ==
    LET chainOfHead == SubSeq(trackedChain, 1, common) \o newBlocks
        blockNumber == Len(chainOfHead)
        invoked == invokedFrom(chainOfHead, trackerCallbacks, blockNumber,
                             blockNumber, trackerLastBlockNumber)
    IN  /\ newBlocks # <<>>
        /\ blockNumber <= MaxTrackedHeight
        /\ chainOfHead # trackedChain
        /\ trackedChain' = chainOfHead
        /\ invokedCallbacks' = invokedCallbacks \o invoked
        /\ trackerCallbacks' = trackerCallbacks \ {invoked[i].id : i \in 1..Len(invoked)}
        /\ trackerLastBlockNumber' = blockNumber
        /\ UNCHANGED registeredIds
        /\ UNCHANGED <<watcherVars, responderVars, logVars, storeVars, cacheVars,
                   processorVars, constructorVars, actionVars, dedicatedVars,
                   minerVars, managerVars, headEventVars, broadcastVars,
                   reduceVars, startVars, cleanupVars>>

NextTracker ==
    \E common \in 0..Len(trackedChain) :
        \E newBlocks \in SeqsUpTo(TrackedTxs, MaxTrackedHeight - common) :
            TrackerNewHead(common, newBlocks)

\* C37: once a head event has been processed, every transaction with a
\* registered TxId in a block on the ancestry of the head has had its
\* callback invoked, also after a reorg to a block numbered no higher than
\* lastBlockNumber and when a block stub of the walk is not in the cache.
C37_AncestryCallbacksInvoked ==
    \A h \in 1..Len(trackedChain) :
        trackedChain[h] \in registeredIds =>
            \E i \in 1..Len(invokedCallbacks) : invokedCallbacks[i].id = trackedChain[h]

\* The part of C37 that holds: heads that each extend the previous one by
\* blocks that are all in the cache
C37_ExtensionCallbacksInvoked ==
    [][(/\ Len(trackedChain') > Len(trackedChain)
        /\ SubSeq(trackedChain', 1, Len(trackedChain)) = trackedChain
        /\ \A h \in (Len(trackedChain) + 1)..Len(trackedChain') :
              stubCached(h, Len(trackedChain')))
       => \A h \in (Len(trackedChain) + 1)..Len(trackedChain') :
              trackedChain'[h] \in trackerCallbacks =>
                  \E i \in 1..Len(invokedCallbacks') :
                      /\ i > Len(invokedCallbacks)
                      /\ invokedCallbacks'[i].id = trackedChain'[h]
      ]_vars

(***************************************************************************)
(* EthereumTransactionMiner: what sendTransaction leaves behind when it    *)
(* settles: the "block" listener of the constructor and the four promises. *)
(***************************************************************************)
WaitingPromises == firstRace \cup secondRace

\* const cancellablePromises = [enoughConfirmationsPromise, noNewBlockPromise]
cancellablePromises == {"enoughConfirmations", "noNewBlock"}

\* The finally block: p.cancel() for each cancellable promise
cancelAll(states) ==
    [p \in WaitingPromises |->
        IF p \in cancellablePromises /\ states[p] = "pending"
        THEN "cancelled" ELSE states[p]]

InitCleanup ==
    /\ sendPc = "sendTransaction"
    /\ blockListener = TRUE
    /\ promises = [p \in WaitingPromises |-> "none"]
    /\ firedLate = {}
    /\ requiredByMiner \in 1..MaxConfirmationsRequired
    /\ seenByMiner = 0

IdleCleanup ==
    /\ sendPc = "sendTransaction"
    /\ blockListener = TRUE
    /\ promises = [p \in WaitingPromises |-> "none"]
    /\ firedLate = {}
    /\ requiredByMiner = 1
    /\ seenByMiner = 0

\* signer.sendTransaction answers or rejects; a rejection leaves
\* sendTransaction before its try block
SendAnswers(answered) ==
    /\ sendPc = "sendTransaction"
    /\ sendPc' = IF answered THEN "getBlockNumber" ELSE "rejected"
    /\ UNCHANGED <<blockListener, promises, firedLate, requiredByMiner, seenByMiner>>
    /\ UNCHANGED <<watcherVars, responderVars, logVars, storeVars, cacheVars,
                   processorVars, constructorVars, actionVars, dedicatedVars,
                   minerVars, managerVars, headEventVars, broadcastVars,
                   reduceVars, startVars, trackerVars>>

\* provider.getBlockNumber answers, and the four promises are created, or
\* it rejects, again before the try block
BlockNumberAnswers(answered) ==
    /\ sendPc = "getBlockNumber"
    /\ sendPc' = IF answered THEN "firstRace" ELSE "rejected"
    /\ promises' = IF answered THEN [p \in WaitingPromises |-> "pending"] ELSE promises
    /\ UNCHANGED <<blockListener, firedLate, requiredByMiner, seenByMiner>>
    /\ UNCHANGED <<watcherVars, responderVars, logVars, storeVars, cacheVars,
                   processorVars, constructorVars, actionVars, dedicatedVars,
                   minerVars, managerVars, headEventVars, broadcastVars,
                   reduceVars, startVars, trackerVars>>

\* Where sendTransaction stands once the promises are in these states
continueFrom(pc, states) ==
    IF pc = "firstRace"
    THEN IF states["blockThreshold"] = "settled" \/ states["noNewBlock"] = "settled"
         THEN "rejected"
         ELSE IF states["firstConfirmation"] # "settled" THEN "firstRace"
         ELSE IF states["enoughConfirmations"] = "settled" THEN "resolved"
         ELSE "secondRace"
    ELSE IF pc = "secondRace"
    THEN IF states["enoughConfirmations"] = "settled" THEN "resolved"
         ELSE IF states["noNewBlock"] = "settled" THEN "rejected"
         ELSE "secondRace"
    ELSE pc

\* An event of the provider settles the pending promises among fired; the
\* race that waits on them goes on, and when sendTransaction settles its
\* finally block runs
promisesSettle(fired) ==
    LET hit == {p \in fired : promises[p] = "pending"}
        after == [p \in WaitingPromises |-> IF p \in hit THEN "settled" ELSE promises[p]]
        pc == continueFrom(sendPc, after)
        ends == sendPc \in {"firstRace", "secondRace"} /\ pc \in {"resolved", "rejected"}
    IN  /\ sendPc' = pc
        /\ promises' = IF ends THEN cancelAll(after) ELSE after
        /\ blockListener' = IF ends THEN FALSE ELSE blockListener
        /\ firedLate' = IF sendPc \in {"resolved", "rejected"}
                        THEN firedLate \cup hit ELSE firedLate

\* A block gives the transaction one more confirmation
TxConfirmed ==
    /\ promises["noNewBlock"] # "none"
    /\ seenByMiner < requiredByMiner
    /\ seenByMiner' = seenByMiner + 1
    /\ promisesSettle({"firstConfirmation"} \cup
                      (IF seenByMiner + 1 >= requiredByMiner
                       THEN {"enoughConfirmations"} ELSE {}))
    /\ UNCHANGED requiredByMiner
    /\ UNCHANGED <<watcherVars, responderVars, logVars, storeVars, cacheVars,
                   processorVars, constructorVars, actionVars, dedicatedVars,
                   minerVars, managerVars, headEventVars, broadcastVars,
                   reduceVars, startVars, trackerVars>>

\* blocksThresholdForStuckTransaction blocks have passed since the sending
ThresholdPassed ==
    /\ promises["blockThreshold"] = "pending"
    /\ promisesSettle({"blockThreshold"})
    /\ UNCHANGED <<requiredByMiner, seenByMiner>>
    /\ UNCHANGED <<watcherVars, responderVars, logVars, storeVars, cacheVars,
                   processorVars, constructorVars, actionVars, dedicatedVars,
                   minerVars, managerVars, headEventVars, broadcastVars,
                   reduceVars, startVars, trackerVars>>

\* No block has arrived for newBlockTimeout milliseconds
BlockTimedOut ==
    /\ promises["noNewBlock"] = "pending"
    /\ promisesSettle({"noNewBlock"})
    /\ UNCHANGED <<requiredByMiner, seenByMiner>>
    /\ UNCHANGED <<watcherVars, responderVars, logVars, storeVars, cacheVars,
                   processorVars, constructorVars, actionVars, dedicatedVars,
                   minerVars, managerVars, headEventVars, broadcastVars,
                   reduceVars, startVars, trackerVars>>

NextCleanup ==
    \/ \E answered \in BOOLEAN : SendAnswers(answered)
    \/ \E answered \in BOOLEAN : BlockNumberAnswers(answered)
    \/ TxConfirmed
    \/ ThresholdPassed
    \/ BlockTimedOut

\* C40: when sendTransaction has settled, by resolving or by rejecting at
\* any step, the miner's "block" listener is removed from the provider and
\* none of the waiting promises it created is still pending or fires later.
C40_NothingLeftBehind ==
    sendPc \in {"resolved", "rejected"} =>
        /\ ~blockListener
        /\ \A p \in WaitingPromises : promises[p] # "pending"
        /\ firedLate = {}

\* The part of C40 that holds: once the try block was entered, the listener
\* is removed and the two cancellable promises are not left pending
C40_CancellablesReleased ==
    (sendPc \in {"resolved", "rejected"} /\ promises["noNewBlock"] # "none") =>
        /\ ~blockListener
        /\ \A p \in cancellablePromises : promises[p] # "pending"

\* The responder while only the Watcher is explored, and the other way round
IdleResponder ==
    /\ queue = NoQueue
    /\ maxConcurrentResponses = 1
    /\ responses = [p \in Requests |-> [pc |-> "idle", id |-> "-"]]
    /\ txCallbacks = {}
    /\ lastBlockNumber = 0
    /\ minedCalls = <<>>
    /\ sent = <<>>
    /\ lastMined = NoCall
    /\ removedCount = [id \in TxIds |-> 0]

IdleWatcher ==
    /\ chain = <<>>
    /\ store = {}
    /\ anchor = [a \in Appointments |-> Undefined]
    /\ confirmationsBeforeResponse = 1
    /\ confirmationsBeforeRemoval = 1
    /\ calls = [a \in Appointments |-> <<>>]
    /\ lastEvent = [prev |-> 0, ancestor |-> 0]
    /\ reorgAt = -1
    /\ rewound = [a \in Appointments |-> FALSE]
    /\ addedAt = [a \in Appointments |-> -1]

(***************************************************************************)
(* MultiResponder claims                                                   *)
(***************************************************************************)
InsertedCount(id) ==
    Cardinality({p \in Requests : responses[p].pc = "added" /\ responses[p].id = id})

BroadcastsOf(p) == SelectSeq(sent, LAMBDA tx : tx.req = p)

\* C5: for a TxId that startResponse inserted once, at most one txMined
\* call for that TxId removes (dequeues or consumes) an item.
C5_AtMostOneEffectiveMining ==
    \A id \in TxIds : InsertedCount(id) = 1 => removedCount[id] <= 1

\* A TxId inserted once, broadcast at two nonces, and removed by the
\* txMined call for its first broadcast
C5_Witness ==
    \E p \in Requests :
        /\ responses[p].pc = "added"
        /\ InsertedCount(responses[p].id) = 1
        /\ Len(BroadcastsOf(p)) >= 2
        /\ removedCount[responses[p].id] = 1
        /\ lastMined.id = responses[p].id
        /\ lastMined.outcome = "consumed"

\* C6: the queue's nonces are contiguous and ascending, currentGas does not
\* increase with the nonce, and no two items have the same TxId.
C6_QueueOrdered ==
    LET items == queue.queueItems
    IN  /\ \A i \in 1..(Len(items) - 1) :
              /\ items[i + 1].nonce = items[i].nonce + 1
              /\ items[i].currentGas >= items[i + 1].currentGas
        /\ \A i, j \in 1..Len(items) : i # j => items[i].id # items[j].id

\* The transactions sent in the step
NewlySent == SubSeq(sent', Len(sent) + 1, Len(sent'))

LastGasOf(p) == BroadcastsOf(p)[Len(BroadcastsOf(p))].gasPrice

\* C7: every transaction sent in a step is an item of the new queue that
\* the old queue does not hold with that nonce and gas, and if the item
\* was sent before, its price is at least ceil(g * (100 + rate) / 100),
\* g the price of its previous broadcast.
C7_ReplacementRate ==
    [][\A k \in 1..Len(NewlySent) :
          LET tx == NewlySent[k]
          IN  /\ \E i \in 1..Len(queue'.queueItems) :
                    /\ queue'.queueItems[i].req = tx.req
                    /\ queue'.queueItems[i].nonce = tx.nonce
                    /\ queue'.queueItems[i].currentGas = tx.gasPrice
              /\ ~\E i \in 1..Len(queue.queueItems) :
                    /\ queue.queueItems[i].req = tx.req
                    /\ queue.queueItems[i].nonce = tx.nonce
                    /\ queue.queueItems[i].currentGas = tx.gasPrice
              /\ BroadcastsOf(tx.req) # <<>> =>
                    tx.gasPrice * 100 >= LastGasOf(tx.req) * (100 + replacementRate)
      ]_vars

\* An item sent a second time, at another nonce and a higher price
C7_Witness ==
    \E p \in Requests :
        /\ Len(BroadcastsOf(p)) >= 2
        /\ BroadcastsOf(p)[1].nonce # BroadcastsOf(p)[2].nonce
        /\ BroadcastsOf(p)[2].gasPrice > BroadcastsOf(p)[1].gasPrice

\* C8: the queue never holds more than maxConcurrentResponses items.
C8_DepthBound == Len(queue.queueItems) <= maxConcurrentResponses

\* The txMined call that runs next meets one of the three error cases
ErrorCase ==
    /\ minedCalls # <<>>
    /\ \/ queue.queueItems = <<>>
       \/ \A i \in 1..Len(queue.queueItems) :
              queue.queueItems[i].id # Head(minedCalls).id
       \/ Head(queue.queueItems).nonce # Head(minedCalls).nonce

OutOfOrderMine ==
    /\ minedCalls # <<>>
    /\ Len(queue.queueItems) = 3
    /\ \A i \in 1..3 : queue.queueItems[i].nonce = i - 1
    /\ Cardinality({queue.queueItems[i].id : i \in 1..3}) = 3
    /\ Head(minedCalls).id = queue.queueItems[2].id
    /\ Head(minedCalls).nonce = 0

\* C10 as stated: with queue [A n=0, B n=1, C n=2], txMined(B, 0) raises
\* QueueConsistencyError and leaves the queue unchanged.
C10_OutOfOrderMineRejected ==
    [][OutOfOrderMine =>
          /\ lastMined'.outcome \in QueueConsistencyErrors
          /\ queue' = queue
      ]_vars

\* C10: with queue [A n=0, B n=1, C n=2], txMined(B, 0) raises no error: B
\* is consumed, A moves to nonce 1 at a price raised by the replacement rate
\* and is the one transaction sent, C keeps its nonce and price.
C10_OutOfOrderMineConsumes ==
    [][OutOfOrderMine =>
          LET A == queue.queueItems[1]
              C == queue.queueItems[3]
          IN  /\ lastMined'.outcome = "consumed"
              /\ Len(queue'.queueItems) = 2
              /\ queue'.queueItems[1].id = A.id
              /\ queue'.queueItems[1].nonce = 1
              /\ queue'.queueItems[1].currentGas * 100
                    >= A.currentGas * (100 + replacementRate)
              /\ queue'.queueItems[2] = C
              /\ Len(NewlySent) = 1
              /\ NewlySent[1].id = A.id
              /\ NewlySent[1].nonce = 1
              /\ NewlySent[1].gasPrice = queue'.queueItems[1].currentGas
      ]_vars

\* txMined(B, 0) consumed the middle item of [A n=0, B n=1, C n=2]: A was
\* sent again at nonce 1, C was sent only once, at nonce 2
C10_Witness ==
    /\ lastMined.outcome = "consumed"
    /\ lastMined.nonce = 0
    /\ Len(queue.queueItems) = 2
    /\ queue.queueItems[1].nonce = 1
    /\ queue.queueItems[2].nonce = 2
    /\ queue.queueItems[1].id # queue.queueItems[2].id
    /\ lastMined.id \notin {queue.queueItems[1].id, queue.queueItems[2].id}
    /\ sent # <<>>
    /\ sent[Len(sent)].req = queue.queueItems[1].req
    /\ Len(BroadcastsOf(queue.queueItems[2].req)) = 1

\* The txMined call that runs next names the front item and its nonce
FrontMine ==
    /\ minedCalls # <<>>
    /\ queue.queueItems # <<>>
    /\ Head(minedCalls).id = Head(queue.queueItems).id
    /\ Head(minedCalls).nonce = Head(queue.queueItems).nonce

\* C11: txMined(id, n) with id and n those of the front item leaves the old
\* queue without its front item, the remaining items with their nonce and
\* gas, and broadcasts nothing.
C11_FrontMineDequeues ==
    [][FrontMine =>
          /\ lastMined'.outcome = "dequeued"
          /\ queue'.queueItems = Tail(queue.queueItems)
          /\ sent' = sent
          /\ txCallbacks' = txCallbacks
      ]_vars

\* [A n=0, B n=1] became [B n=1] by txMined(A, 0)
C11_Witness ==
    /\ lastMined.outcome = "dequeued"
    /\ lastMined.nonce = 0
    /\ Len(queue.queueItems) = 1
    /\ queue.queueItems[1].nonce = 1
    /\ queue.queueItems[1].id # lastMined.id

\* Spec scenario 4: rate 13%, queue [g=10,n=0],[g=5,n=1], add g=8
PromotionQueue ==
    GasQueue(<<GasQueueItem(1, "A", 10, 0, 10), GasQueueItem(2, "B", 5, 1, 5)>>, 2)

PromotionExample ==
    LET q == add(PromotionQueue, 3, "C", 8)
        replaced == replacedTransactions(q, PromotionQueue)
    IN  /\ [i \in 1..3 |-> <<q.queueItems[i].currentGas, q.queueItems[i].nonce>>]
              = << <<10, 0>>, <<8, 1>>, <<6, 2>> >>
        /\ [i \in 1..Len(replaced) |-> replaced[i].id] = <<"C", "B">>

\* Position in the new queue of the item request p added in this step
AddedAt(p) == CHOOSE k \in 1..Len(queue'.queueItems) : queue'.queueItems[k].req = p

\* C12: a request with idealGas g is inserted after every item with higher
\* currentGas; the items before it keep nonce and gas and are not sent; the
\* new item and the displaced items take the next nonces in order, the
\* displaced ones at a price raised by the replacement rate; exactly the
\* new item and the displaced items are sent.  The spec's example holds.
C12_AddPromotes ==
    [][/\ PromotionExample
       /\ \A p \in Requests :
            (responses[p].pc = "estimate" /\ responses'[p].pc = "added") =>
                LET old == queue.queueItems
                    new == queue'.queueItems
                    k == AddedAt(p)
                IN  /\ Len(new) = Len(old) + 1
                    /\ SubSeq(new, 1, k - 1) = SubSeq(old, 1, k - 1)
                    /\ \A i \in 1..Len(old) :
                          old[i].currentGas > new[k].idealGas => i < k
                    /\ new[k].currentGas >= new[k].idealGas
                    /\ new[k].nonce = IF k <= Len(old) THEN old[k].nonce
                                      ELSE queue.emptyNonce
                    /\ \A i \in k..Len(old) :
                          /\ new[i + 1].req = old[i].req
                          /\ new[i + 1].nonce = old[i].nonce + 1
                          /\ new[i + 1].currentGas * 100
                                >= old[i].currentGas * (100 + replacementRate)
                    /\ NewlySent = transactionRequests(SubSeq(new, k, Len(new)))
      ]_vars

\* A request was added between an item that stayed and one it displaced
C12_Witness ==
    /\ Len(queue.queueItems) = 3
    /\ Len(sent) >= 4
    /\ sent[Len(sent) - 1].req = queue.queueItems[2].req
    /\ sent[Len(sent)].req = queue.queueItems[3].req
    /\ Len(BroadcastsOf(queue.queueItems[1].req)) = 1
    /\ Len(BroadcastsOf(queue.queueItems[2].req)) = 1
    /\ Len(BroadcastsOf(queue.queueItems[3].req)) = 2
    /\ lastMined = NoCall

\* C13: the callbacks of one new-head event are invoked in increasing
\* block number: a registered transaction of block n has its callback
\* invoked before one of a block with a greater number.
C13_CallbacksInBlockOrder ==
    \A i, j \in 1..Len(minedCalls) :
        i < j => minedCalls[i].block <= minedCalls[j].block

\* The txMined call that runs next has the front item's nonce and the TxId
\* of an item behind the front
BehindFrontMine ==
    /\ minedCalls # <<>>
    /\ queue.queueItems # <<>>
    /\ Head(minedCalls).nonce = Head(queue.queueItems).nonce
    /\ contains(queue, Head(minedCalls).id)
    /\ Head(minedCalls).id # Head(queue.queueItems).id

\* The items of the new queue that the old queue held with another nonce or
\* another price
ChangedItems ==
    SelectSeq(queue'.queueItems,
              LAMBDA item : \E j \in 1..Len(queue.queueItems) :
                  /\ queue.queueItems[j].req = item.req
                  /\ \/ queue.queueItems[j].nonce # item.nonce
                     \/ queue.queueItems[j].currentGas # item.currentGas)

\* C32: txMined(id, n) with n the front item's nonce and id the TxId of an
\* item at position k behind the front makes the queue queue.consume(id):
\* that item is removed, the items after it keep their nonce and currentGas,
\* and exactly the items whose nonce or gas changed are broadcast.
C32_ConsumeBehindFront ==
    [][BehindFrontMine =>
          LET items == queue.queueItems
              k == indexOf(items, Head(minedCalls).id)
          IN  /\ lastMined'.outcome = "consumed"
              /\ queue' = consume(queue, Head(minedCalls).id)
              /\ Len(queue'.queueItems) = Len(items) - 1
              /\ \A i \in 1..Len(queue'.queueItems) :
                    queue'.queueItems[i].req # items[k].req
              /\ \A i \in k..Len(queue'.queueItems) :
                    queue'.queueItems[i] = items[i + 1]
              /\ NewlySent = transactionRequests(ChangedItems)
              /\ Len(NewlySent) = k - 1
      ]_vars

\* txMined consumed the last of three items: the two items before it were
\* both sent again, one nonce higher
C32_Witness ==
    /\ lastMined.outcome = "consumed"
    /\ Len(queue.queueItems) = 2
    /\ Len(sent) >= 5
    /\ queue.queueItems[1].nonce = lastMined.nonce + 1
    /\ \A i \in 1..2 :
          /\ sent[Len(sent) - 2 + i].req = queue.queueItems[i].req
          /\ sent[Len(sent) - 2 + i].nonce = queue.queueItems[i].nonce
          /\ sent[Len(sent) - 2 + i].gasPrice = queue.queueItems[i].currentGas
          /\ Len(BroadcastsOf(queue.queueItems[i].req)) >= 2

\* C33: after a txMined(id, n) call that dequeued or consumed, no item left
\* in the queue has a nonce of n or lower.
C33_MinedNonceGone ==
    [][(minedCalls # <<>> /\ lastMined'.outcome \in {"dequeued", "consumed"}) =>
          \A i \in 1..Len(queue'.queueItems) :
              queue'.queueItems[i].nonce > lastMined'.nonce
      ]_vars

\* txMined(id, n) consumed an item behind the front, and the item that was
\* at the front with nonce n is still in the queue, now at nonce n + 1
C33_Witness ==
    /\ lastMined.outcome = "consumed"
    /\ queue.queueItems # <<>>
    /\ Head(queue.queueItems).nonce = lastMined.nonce + 1
    /\ \E i \in 1..Len(sent) :
          /\ sent[i].req = Head(queue.queueItems).req
          /\ sent[i].nonce = lastMined.nonce

\* C38: between operations, every item of the queue has a mined-callback
\* registered in the TransactionTracker for its TxId, also after a callback
\* was removed by the tracker and its txMined call ended in a
\* QueueConsistencyError that left the item in the queue.
C38_QueueItemsTracked ==
    minedCalls = <<>> =>
        \A i \in 1..Len(queue.queueItems) :
            \E p \in txCallbacks : responses[p].id = queue.queueItems[i].id

\* The step ends the setup call of a startResponse
SetupEnds ==
    \E p \in Requests : responses[p].pc = "setup" /\ responses'[p].pc # "setup"

\* C39: the lazy setup creates the gas queue once: under every interleaving
\* of concurrent first calls, a setup that ends never replaces a queue
\* that exists, so no item added to the queue is lost.
C39_SetupCreatesQueueOnce ==
    [][(SetupEnds /\ queue.isSet) => queue' = queue]_vars

IdleLibrary ==
    IdleLog /\ IdleStore /\ IdleCache /\ IdleProcessor /\ IdleConstructor /\
    IdleActions /\ IdleDedicated /\ IdleMiner /\ IdleManager /\
    IdleHeadEvent /\ IdleBroadcast /\ IdleReduce /\ IdleStart /\
    IdleTracker /\ IdleCleanup

Init == InitWatcher /\ IdleResponder /\ IdleLibrary
Next == NextWatcher
Spec == Init /\ [][Next]_vars

InitR == IdleWatcher /\ InitResponder /\ IdleLibrary
SpecResponder == InitR /\ [][NextResponder]_vars
InitL == IdleWatcher /\ IdleResponder /\ InitLog /\ IdleStore /\ IdleCache /\ IdleProcessor /\ IdleConstructor /\ IdleActions /\ IdleDedicated /\ IdleMiner /\ IdleManager /\ IdleHeadEvent /\ IdleBroadcast /\ IdleReduce /\ IdleStart /\ IdleTracker /\ IdleCleanup
SpecLog == InitL /\ [][MatchLog]_vars
InitS == IdleWatcher /\ IdleResponder /\ IdleLog /\ InitStore /\ IdleCache /\ IdleProcessor /\ IdleConstructor /\ IdleActions /\ IdleDedicated /\ IdleMiner /\ IdleManager /\ IdleHeadEvent /\ IdleBroadcast /\ IdleReduce /\ IdleStart /\ IdleTracker /\ IdleCleanup
SpecStore == InitS /\ [][NextStore]_vars
InitC == IdleWatcher /\ IdleResponder /\ IdleLog /\ IdleStore /\ InitCache /\ IdleProcessor /\ IdleConstructor /\ IdleActions /\ IdleDedicated /\ IdleMiner /\ IdleManager /\ IdleHeadEvent /\ IdleBroadcast /\ IdleReduce /\ IdleStart /\ IdleTracker /\ IdleCleanup
SpecCache == InitC /\ [][NextCache]_vars
InitP == IdleWatcher /\ IdleResponder /\ IdleLog /\ IdleStore /\ InitCache /\ InitProcessor /\ IdleConstructor /\ IdleActions /\ IdleDedicated /\ IdleMiner /\ IdleManager /\ IdleHeadEvent /\ IdleBroadcast /\ IdleReduce /\ IdleStart /\ IdleTracker /\ IdleCleanup
SpecProcessor == InitP /\ [][NextProcessor]_vars
InitW == IdleWatcher /\ IdleResponder /\ IdleLog /\ IdleStore /\ IdleCache /\ IdleProcessor /\ InitConstructor /\ IdleActions /\ IdleDedicated /\ IdleMiner /\ IdleManager /\ IdleHeadEvent /\ IdleBroadcast /\ IdleReduce /\ IdleStart /\ IdleTracker /\ IdleCleanup
SpecConstructor == InitW /\ [][Construct]_vars
InitA == IdleWatcher /\ IdleResponder /\ IdleLog /\ IdleStore /\ IdleCache /\ IdleProcessor /\ IdleConstructor /\ InitActions /\ IdleDedicated /\ IdleMiner /\ IdleManager /\ IdleHeadEvent /\ IdleBroadcast /\ IdleReduce /\ IdleStart /\ IdleTracker /\ IdleCleanup
SpecActions == InitA /\ [][NextActions]_vars
InitD == IdleWatcher /\ IdleResponder /\ IdleLog /\ IdleStore /\ IdleCache /\ IdleProcessor /\ IdleConstructor /\ IdleActions /\ InitDedicated /\ IdleMiner /\ IdleManager /\ IdleHeadEvent /\ IdleBroadcast /\ IdleReduce /\ IdleStart /\ IdleTracker /\ IdleCleanup
SpecDedicated == InitD /\ [][NextDedicated]_vars
InitM == IdleWatcher /\ IdleResponder /\ IdleLog /\ IdleStore /\ IdleCache /\ IdleProcessor /\ IdleConstructor /\ IdleActions /\ IdleDedicated /\ InitMiner /\ IdleManager /\ IdleHeadEvent /\ IdleBroadcast /\ IdleReduce /\ IdleStart /\ IdleTracker /\ IdleCleanup
SpecMiner == InitM /\ [][NextMiner]_vars
InitG == IdleWatcher /\ IdleResponder /\ IdleLog /\ IdleStore /\ IdleCache /\ IdleProcessor /\ IdleConstructor /\ IdleActions /\ IdleDedicated /\ IdleMiner /\ InitManager /\ IdleHeadEvent /\ IdleBroadcast /\ IdleReduce /\ IdleStart /\ IdleTracker /\ IdleCleanup
SpecManager == InitG /\ [][NextManager]_vars
InitH == IdleWatcher /\ IdleResponder /\ IdleLog /\ IdleStore /\ IdleCache /\ IdleProcessor /\ IdleConstructor /\ IdleActions /\ IdleDedicated /\ IdleMiner /\ IdleManager /\ InitHeadEvent /\ IdleBroadcast /\ IdleReduce /\ IdleStart /\ IdleTracker /\ IdleCleanup
SpecHeadEvent == InitH /\ [][NextHeadEvent]_vars
InitB == IdleWatcher /\ IdleResponder /\ IdleLog /\ IdleStore /\ IdleCache /\ IdleProcessor /\ IdleConstructor /\ IdleActions /\ IdleDedicated /\ IdleMiner /\ IdleManager /\ IdleHeadEvent /\ InitBroadcast /\ IdleReduce /\ IdleStart /\ IdleTracker /\ IdleCleanup
SpecBroadcast == InitB /\ [][NextBroadcast]_vars
InitE == IdleWatcher /\ IdleResponder /\ IdleLog /\ IdleStore /\ IdleCache /\ IdleProcessor /\ IdleConstructor /\ IdleActions /\ IdleDedicated /\ IdleMiner /\ IdleManager /\ IdleHeadEvent /\ IdleBroadcast /\ InitReduce /\ IdleStart /\ IdleTracker /\ IdleCleanup
SpecReduce == InitE /\ [][NextReduce]_vars
InitT == IdleWatcher /\ IdleResponder /\ IdleLog /\ IdleStore /\ IdleCache /\ IdleProcessor /\ IdleConstructor /\ IdleActions /\ IdleDedicated /\ IdleMiner /\ IdleManager /\ IdleHeadEvent /\ IdleBroadcast /\ IdleReduce /\ InitStart /\ IdleTracker /\ IdleCleanup
SpecStart == InitT /\ [][NextStart]_vars
InitK == IdleWatcher /\ IdleResponder /\ IdleLog /\ IdleStore /\ IdleCache /\ IdleProcessor /\ IdleConstructor /\ IdleActions /\ IdleDedicated /\ IdleMiner /\ IdleManager /\ IdleHeadEvent /\ IdleBroadcast /\ IdleReduce /\ IdleStart /\ InitTracker /\ IdleCleanup
SpecTracker == InitK /\ [][NextTracker]_vars
InitN == IdleWatcher /\ IdleResponder /\ IdleLog /\ IdleStore /\ IdleCache /\ IdleProcessor /\ IdleConstructor /\ IdleActions /\ IdleDedicated /\ IdleMiner /\ IdleManager /\ IdleHeadEvent /\ IdleBroadcast /\ IdleReduce /\ IdleStart /\ IdleTracker /\ InitCleanup
SpecCleanup == InitN /\ [][NextCleanup]_vars
====
